---------------------------- MODULE Spec2Model ----------------------------
(***************************************************************************)
(* Approval distribution subsystem                                         *)
(* (node/network/approval-distribution/src/lib.rs) as a state machine.     *)
(*                                                                         *)
(* Every action is one complete handler of the event loop `run_inner`:     *)
(* an overseer message, an overseer signal, or the completion of the       *)
(* oldest pending assignment / approval check together with the drain of   *)
(* the backlog of its subject.  Every state of the model is therefore a    *)
(* quiescent point of the subsystem.                                       *)
(*                                                                         *)
(* Handlers are written as operators from a state record `st` to a state   *)
(* record, so that a handler can call another one the way the code does.   *)
(***************************************************************************)
EXTENDS Integers, Sequences, FiniteSets, TLC

(***************************************************************************)
(* Bounds of the model.                                                    *)
(***************************************************************************)
\* Number of overseer inputs handled in one behaviour.
MaxEventsWide == 4
MaxEventsNarrow == 5
MaxEventsAged == 5
MaxEventsEdge == 3
MaxEventsLevel2 == 4
MaxEventsGated == 4
MaxEventsResend == 4
MaxEventsOdd == 4
\* Longest per-subject backlog / pending_known buffer that the inputs build.
MaxQueue == 2

(***************************************************************************)
(* Input universes.                                                        *)
(***************************************************************************)
Null == "null"

\* Option::None of a number, of a topology and of a queued message.
None == -1
NoTopology == [absent |-> TRUE]
NoMessage == <<>>

\* BlockNumber::MAX.  BlockNumber is u32; the integers of the model end at
\* 2^31 - 1, which stands for the last number of the type.
MaxBlockNumber == 2147483647

Peers == {"p1", "p2"}
PeerOrder == <<"p1", "p2">>

Hashes == {"h1", "h2", "h3"}
HashOrder == <<"h1", "h2", "h3">>

Validators == {0}
ValidatorOrder == <<0>>

\* Candidate indices a message may claim; blocks hold one candidate (index 0).
CandidateIndices == {0}

Certs == {"cert"}
Signatures == {"sig"}

\* BlockApprovalMeta of the two blocks of the chain h0 <- h1 <- h2, and of a
\* block h3 that has the last number of the type.
Meta(h) ==
    CASE h = "h1" ->
            [hash |-> "h1", number |-> 1, parent_hash |-> "h0", candidates |-> 1, session |-> 1]
      [] h = "h2" ->
            [hash |-> "h2", number |-> 2, parent_hash |-> "h1", candidates |-> 1, session |-> 1]
      [] OTHER ->
            [hash |-> "h3", number |-> MaxBlockNumber, parent_hash |-> "hx",
             candidates |-> 1, session |-> 1]

\* The Vec<BlockApprovalMeta> payloads of NewBlocks.
MetaBatches ==
    { <<Meta("h1")>>, <<Meta("h2")>>, <<Meta("h1"), Meta("h2")>>, <<Meta("h3")>>,
      <<Meta("h1"), Meta("h1")>> }

FinalizedNumbers == {0} \cup { Meta(h).number : h \in Hashes }

\* Views of peers and of ourselves: heads and finalized number.
View(heads, finalized_number) == [heads |-> heads, finalized_number |-> finalized_number]
PeerViews == { View({"h1"}, 0), View({"h2"}, 0), View({"h2"}, 1), View({"h3"}, 0) }
OurViews == { View({}, 0), View({"h1"}, 0), View({"h2"}, 0), View({"h3"}, 0) }

Sessions == {1}

(***************************************************************************)
(* Maps (HashMap / BTreeMap) are functions whose domain is the key set.    *)
(***************************************************************************)
EmptyMap == [x \in {} |-> Null]
Put(f, k, v) == [x \in (DOMAIN f) \cup {k} |-> IF x = k THEN v ELSE f[x]]
Remove(f, k) == [x \in (DOMAIN f) \ {k} |-> f[x]]

Min(S) == CHOOSE x \in S : \A y \in S : x <= y
Max(S) == CHOOSE x \in S : \A y \in S : x >= y

(***************************************************************************)
(* Reputation changes.                                                     *)
(***************************************************************************)
COST_UNEXPECTED_MESSAGE == <<"CostMinor", "Peer sent an out-of-view assignment or approval">>
COST_DUPLICATE_MESSAGE == <<"CostMinorRepeated", "Peer sent identical messages">>
COST_ASSIGNMENT_TOO_FAR_IN_THE_FUTURE == <<"CostMinor", "The vote was valid but too far in the future">>
COST_INVALID_MESSAGE == <<"CostMajor", "The vote was bad">>
BENEFIT_VALID_MESSAGE == <<"BenefitMinor", "Peer sent a valid message">>
BENEFIT_VALID_MESSAGE_FIRST == <<"BenefitMinorFirst", "Valid message with new information">>

(***************************************************************************)
(* Outbound messages.  `outbox` holds what the handler of the last event   *)
(* sent, in order.                                                         *)
(***************************************************************************)
ReportPeer(peer_id, rep) == [type |-> "ReportPeer", peer |-> peer_id, rep |-> rep]

\* SendValidationMessage(peers, Assignments(..) | Approvals(..)); the payload
\* is kept as the set of subjects it carries.
SendValidationMessage(peers, kind, subjects) ==
    [type |-> "SendValidationMessage", peers |-> peers, kind |-> kind, subjects |-> subjects]

CheckAndImportAssignment(subject, peer_id) ==
    [type |-> "CheckAndImportAssignment", subject |-> subject, peer |-> peer_id]

CheckAndImportApproval(subject, peer_id) ==
    [type |-> "CheckAndImportApproval", subject |-> subject, peer |-> peer_id]

Emit(st, msg) == [st EXCEPT !.outbox = Append(@, msg)]

\* modify_reputation: the two cost changes named in the match are dropped.
\* Variants that lack one arm of the match.
modify_reputation_charging_duplicates(st, peer_id, rep) ==
    IF rep = COST_UNEXPECTED_MESSAGE
    THEN st
    ELSE Emit(st, ReportPeer(peer_id, rep))

modify_reputation_charging_unexpected(st, peer_id, rep) ==
    IF rep = COST_DUPLICATE_MESSAGE
    THEN st
    ELSE Emit(st, ReportPeer(peer_id, rep))

modify_reputation(st, peer_id, rep) ==
    IF rep = COST_UNEXPECTED_MESSAGE \/ rep = COST_DUPLICATE_MESSAGE
    THEN st
    ELSE Emit(st, ReportPeer(peer_id, rep))

(***************************************************************************)
(* RecentlyOutdated                                                        *)
(***************************************************************************)
MAX_BUF_LEN == 20

RECURSIVE TrimFront(_)
TrimFront(buf) == IF Len(buf) > MAX_BUF_LEN THEN TrimFront(Tail(buf)) ELSE buf

note_outdated(buf, hash) == TrimFront(Append(buf, hash))

is_recent_outdated(buf, hash) == \E i \in 1..Len(buf) : buf[i] = hash

(***************************************************************************)
(* AggressionConfig                                                        *)
(***************************************************************************)
AggressionConfig(l1, l2, resend) ==
    [l1_threshold |-> l1, l2_threshold |-> l2, resend_unfinalized_period |-> resend]

DefaultL1Threshold == 1000
DefaultL2Threshold == 10000
DefaultAggressionConfig == AggressionConfig(DefaultL1Threshold, DefaultL2Threshold, None)

\* A variant that falls back on the resend period when the age is below
\* l1_threshold.
is_age_relevant_or_period(config, block_age) ==
    \/ config.l1_threshold # None /\ block_age >= config.l1_threshold
    \/ /\ config.resend_unfinalized_period # None
       /\ block_age > 0
       /\ block_age % config.resend_unfinalized_period = 0

is_age_relevant(config, block_age) ==
    IF config.l1_threshold # None
    THEN block_age >= config.l1_threshold
    ELSE IF config.resend_unfinalized_period # None
         THEN block_age > 0 /\ block_age % config.resend_unfinalized_period = 0
         ELSE FALSE

(***************************************************************************)
(* MessageSubject, Knowledge, PeerKnowledge                                *)
(***************************************************************************)
MessageSubject(block_hash, candidate_index, validator) ==
    <<block_hash, candidate_index, validator>>

Knowledge_default == EmptyMap

\* A variant that finds every message.
Knowledge_contains_any(k, message, kind) == TRUE

Knowledge_contains(k, message, kind) ==
    IF message \notin DOMAIN k THEN FALSE
    ELSE IF kind = "Assignment" THEN TRUE
    ELSE k[message] = "Approval"

\* A variant of `insert` that records nothing.
Knowledge_insert_forgetful(k, message, kind) == k

\* A variant of `insert` that writes the kind over what is recorded.
Knowledge_insert_overwriting(k, message, kind) == Put(k, message, kind)

\* A variant of the value `insert` returns: always novel.
Knowledge_insert_novel_always(k, message, kind) == TRUE

\* The value `insert` returns.
Knowledge_insert_novel(k, message, kind) ==
    IF message \notin DOMAIN k THEN TRUE
    ELSE k[message] = "Assignment" /\ kind = "Approval"

\* The ledger after `insert`.
Knowledge_insert(k, message, kind) ==
    IF message \notin DOMAIN k THEN Put(k, message, kind)
    ELSE IF k[message] = "Assignment" /\ kind = "Approval"
         THEN Put(k, message, "Approval")
         ELSE k

PeerKnowledge_default == [sent |-> Knowledge_default, received |-> Knowledge_default]

\* A variant that never finds the message.
PeerKnowledge_contains_never(pk, message, kind) == FALSE

\* A variant that looks only at what we sent to the peer.
PeerKnowledge_contains_sent(pk, message, kind) ==
    Knowledge_contains(pk.sent, message, kind)

\* A variant that looks only at what the peer delivered to us.
PeerKnowledge_contains_received(pk, message, kind) ==
    Knowledge_contains(pk.received, message, kind)

PeerKnowledge_contains(pk, message, kind) ==
    Knowledge_contains(pk.sent, message, kind) \/ Knowledge_contains(pk.received, message, kind)

(***************************************************************************)
(* Grid topology (polkadot_node_network_protocol::grid_topology).          *)
(* A topology is the local node's grid neighbours.                         *)
(***************************************************************************)
GridNeighbors(peers_x, peers_y, validator_indices_x, validator_indices_y) ==
    [peers_x |-> peers_x, peers_y |-> peers_y,
     validator_indices_x |-> validator_indices_x,
     validator_indices_y |-> validator_indices_y]

\* Topologies a NewGossipTopology may carry.
Topologies ==
    { GridNeighbors({"p1"}, {}, {}, {0}),
      GridNeighbors({}, {"p2"}, {0}, {}) }

required_routing_by_index(t, originator, local) ==
    IF local THEN "GridXY"
    ELSE LET grid_x == originator \in t.validator_indices_x
             grid_y == originator \in t.validator_indices_y
         IN  IF grid_x /\ grid_y THEN "GridXY"
             ELSE IF grid_x THEN "GridY"
             ELSE IF grid_y THEN "GridX"
             ELSE "None"

route_to_peer(t, required_routing, peer) ==
    CASE required_routing = "All" -> TRUE
      [] required_routing = "GridX" -> peer \in t.peers_x
      [] required_routing = "GridY" -> peer \in t.peers_y
      [] required_routing = "GridXY" -> peer \in t.peers_x \/ peer \in t.peers_y
      [] OTHER -> FALSE

RequiredRouting_is_empty(required_routing) ==
    required_routing \in {"PendingTopology", "None"}

\* RandomRouting: a budget of random sends per message.
RandomTarget == 4
RandomRouting_default == [sent |-> 0]

\* `coin` is the outcome of the random draw.
RandomRouting_sample(rr, n_peers_total, coin) == rr.sent < RandomTarget /\ coin

\* SessionGridTopologies: session -> (topology or NoTopology, reference count).
get_topology(topologies, session) ==
    IF session \in DOMAIN topologies THEN topologies[session].topology ELSE NoTopology

inc_session_refs(topologies, session) ==
    IF session \in DOMAIN topologies
    THEN [topologies EXCEPT ![session].refs = @ + 1]
    ELSE Put(topologies, session, [topology |-> NoTopology, refs |-> 1])

dec_session_refs(topologies, session) ==
    IF session \notin DOMAIN topologies THEN topologies
    ELSE IF topologies[session].refs <= 1 THEN Remove(topologies, session)
    ELSE [topologies EXCEPT ![session].refs = @ - 1]

insert_topology(topologies, session, topology) ==
    IF session \notin DOMAIN topologies
    THEN Put(topologies, session, [topology |-> topology, refs |-> 0])
    ELSE IF topologies[session].topology = NoTopology
         THEN [topologies EXCEPT ![session].topology = topology]
         ELSE topologies


(***************************************************************************)
(* Messages, message states, block entries.                                *)
(***************************************************************************)
\* IndirectAssignmentCert together with the claimed candidate index
\* (PendingMessage::Assignment) and IndirectSignedApprovalVote
\* (PendingMessage::Approval), in one record shape.
AssignmentMsg(block_hash, candidate_index, validator, cert) ==
    [kind |-> "Assignment", block_hash |-> block_hash, candidate_index |-> candidate_index,
     validator |-> validator, cert |-> cert, signature |-> Null]

ApprovalMsg(block_hash, candidate_index, validator, signature) ==
    [kind |-> "Approval", block_hash |-> block_hash, candidate_index |-> candidate_index,
     validator |-> validator, cert |-> Null, signature |-> signature]

SubjectOf(msg) == MessageSubject(msg.block_hash, msg.candidate_index, msg.validator)

\* MessageSource::Local; MessageSource::Peer(p) is the peer id p itself.
Local == "Local"
source_peer_id(source) == IF source = Local THEN Null ELSE source

Assigned(cert) == [tag |-> "Assigned", cert |-> cert, signature |-> Null]
Approved(cert, signature) == [tag |-> "Approved", cert |-> cert, signature |-> signature]

MessageState(required_routing, local, random_routing, approval_state) ==
    [required_routing |-> required_routing, local |-> local,
     random_routing |-> random_routing, approval_state |-> approval_state]

\* BlockEntry created by handle_new_blocks.
NewBlockEntry(meta) ==
    [known_by |-> EmptyMap,
     number |-> meta.number,
     parent_hash |-> meta.parent_hash,
     knowledge |-> Knowledge_default,
     candidates |-> [i \in 1..meta.candidates |-> EmptyMap],
     session |-> meta.session]

\* entry.candidates.get(candidate_index).is_some()
HasCandidate(entry, candidate_index) ==
    candidate_index >= 0 /\ candidate_index < Len(entry.candidates)

\* All (subject key, state) of a block: <<candidate_index, validator>>.
MessagesOf(entry) ==
    { <<ci, v>> \in (0..(Len(entry.candidates) - 1)) \X Validators :
        v \in DOMAIN entry.candidates[ci + 1] }

StateOfMessage(entry, ci, v) == entry.candidates[ci + 1][v]

(***************************************************************************)
(* ImportPipeline                                                          *)
(***************************************************************************)
\* A pending check (PendingAssignmentCheck / PendingApprovalCheck).
PendingCheck(message_subject, peer_id, msg) ==
    [message_subject |-> message_subject, peer_id |-> peer_id, msg |-> msg]

\* PendingAssignmentCheckResult / PendingApprovalCheckResult.
CheckResult(message_subject, peer_id, msg, result) ==
    [message_subject |-> message_subject, peer_id |-> peer_id, msg |-> msg, result |-> result]

\* The value pop_next_message returns (NoMessage for None).
pop_next_message_value(st, message_subject) ==
    IF message_subject \in DOMAIN st.pending_messages
       /\ Len(st.pending_messages[message_subject]) > 0
    THEN Head(st.pending_messages[message_subject])
    ELSE NoMessage

\* The pipeline after pop_next_message.
pop_next_message(st, message_subject) ==
    IF message_subject \in DOMAIN st.pending_messages
       /\ Len(st.pending_messages[message_subject]) > 0
    THEN [st EXCEPT !.pending_messages[message_subject] = Tail(@)]
    ELSE [st EXCEPT !.pending_messages = Remove(@, message_subject)]

\* A variant that pushes to the front of the queue.
queue_message_front(st, peer_id, message) ==
    LET message_subject == SubjectOf(message)
        queue == IF message_subject \in DOMAIN st.pending_messages
                 THEN st.pending_messages[message_subject]
                 ELSE <<>>
    IN  [st EXCEPT !.pending_messages =
            Put(@, message_subject, <<<<peer_id, message>>>> \o queue)]

queue_message(st, peer_id, message) ==
    LET message_subject == SubjectOf(message)
        queue == IF message_subject \in DOMAIN st.pending_messages
                 THEN st.pending_messages[message_subject]
                 ELSE <<>>
    IN  [st EXCEPT !.pending_messages =
            Put(@, message_subject, Append(queue, <<peer_id, message>>))]

\* The stored flag is `true` while a check is running.
set_queue_idle(st, message_subject, idle) ==
    [st EXCEPT !.pending_work = Put(@, message_subject, idle)]

is_queue_idle(st, message_subject) ==
    IF message_subject \in DOMAIN st.pending_work
    THEN ~st.pending_work[message_subject]
    ELSE TRUE

is_queue_empty(st, message_subject) ==
    IF message_subject \in DOMAIN st.pending_messages
    THEN Len(st.pending_messages[message_subject]) = 0
    ELSE TRUE

start_check_work_unflagged(st, message_subject, pending) ==
    IF pending.msg.kind = "Approval"
    THEN [st EXCEPT !.pending_vote_checks = Append(@, pending)]
    ELSE [st EXCEPT !.pending_assignment_checks = Append(@, pending)]

start_check_work(st, message_subject, pending) ==
    IF pending.msg.kind = "Approval"
    THEN [set_queue_idle(st, message_subject, TRUE)
            EXCEPT !.pending_vote_checks = Append(@, pending)]
    ELSE [set_queue_idle(st, message_subject, TRUE)
            EXCEPT !.pending_assignment_checks = Append(@, pending)]

(***************************************************************************)
(* Random routing draws of one handler: R is the set of <<peer, subject>>  *)
(* pairs for which the draw of `sample` comes out true.                    *)
(***************************************************************************)
\* The peers among `cands` whose draw fires, within the remaining budget.
Fired(cands, R, message_subject, remaining) ==
    LET hit == { p \in cands : <<p, message_subject>> \in R }
    IN  IF Cardinality(hit) <= remaining THEN hit
        ELSE CHOOSE S \in SUBSET hit : Cardinality(S) = remaining

(***************************************************************************)
(* finish_assignment_import_and_circulate                                  *)
(***************************************************************************)
\* Lines 1164-1262: store the message state and send to the routing set.
circulate_assignment(st, result, R) ==
    LET peer_id == result.peer_id
        block_hash == result.msg.block_hash
        validator_index == result.msg.validator
        claimed_candidate_index == result.msg.candidate_index
        message_subject == MessageSubject(block_hash, claimed_candidate_index, validator_index)
        entry == st.blocks[block_hash]
        topology == get_topology(st.topologies, entry.session)
        local == (peer_id = Null)
        required_routing ==
            IF topology = NoTopology THEN "PendingTopology"
            ELSE required_routing_by_index(topology, validator_index, local)
    IN
    IF ~HasCandidate(entry, claimed_candidate_index) THEN st
    ELSE
    LET messages == entry.candidates[claimed_candidate_index + 1]
        message_state ==
            IF validator_index \in DOMAIN messages THEN messages[validator_index]
            ELSE MessageState(required_routing, local, RandomRouting_default,
                              Assigned(result.msg.cert))
        n_peers_total == Cardinality(DOMAIN st.peer_views)
        in_topology(p) ==
            topology # NoTopology /\ route_to_peer(topology, required_routing, p)
        sampled == { p \in DOMAIN entry.known_by : p # peer_id /\ ~in_topology(p) }
        fired == Fired(sampled, R, message_subject,
                       RandomTarget - message_state.random_routing.sent)
        peers == { p \in DOMAIN entry.known_by :
                     p # peer_id /\ (in_topology(p) \/ p \in fired) }
        filtered_peers ==
            { p \in peers :
                ~PeerKnowledge_contains(entry.known_by[p], message_subject, "Assignment") }
        message_state2 ==
            [message_state EXCEPT !.random_routing.sent = @ + Cardinality(fired)]
        known_by2 ==
            [p \in DOMAIN entry.known_by |->
                IF p \in filtered_peers
                THEN [entry.known_by[p] EXCEPT
                        !.sent = Knowledge_insert(@, message_subject, "Assignment")]
                ELSE entry.known_by[p]]
        entry2 == [entry EXCEPT
                     !.candidates[claimed_candidate_index + 1] =
                         Put(messages, validator_index, message_state2),
                     !.known_by = known_by2]
        st2 == [st EXCEPT !.blocks[block_hash] = entry2]
    IN  IF filtered_peers # {}
        THEN Emit(st2, SendValidationMessage(filtered_peers, "Assignments", {message_subject}))
        ELSE st2

\* A variant that rewards the peer for a duplicate.
assignment_result_step_rewarding_duplicate(st, result) ==
    LET peer_id == result.peer_id
        block_hash == result.msg.block_hash
        message_subject == result.message_subject
        entry == st.blocks[block_hash]
        note_received(s) ==
            IF peer_id \in DOMAIN entry.known_by
            THEN [s EXCEPT !.blocks[block_hash].known_by[peer_id].received =
                              Knowledge_insert(@, message_subject, "Assignment")]
            ELSE s
    IN
    CASE result.result = "Accepted" ->
            LET st1 == note_received(modify_reputation(st, peer_id, BENEFIT_VALID_MESSAGE_FIRST))
            IN  IF ~Knowledge_insert_novel(entry.knowledge, message_subject, "Assignment")
                THEN [st |-> st1, go |-> FALSE]
                ELSE [st |-> [st1 EXCEPT !.blocks[block_hash].knowledge =
                                  Knowledge_insert(@, message_subject, "Assignment")],
                      go |-> TRUE]
      [] result.result = "AcceptedDuplicate" ->
            [st |-> note_received(modify_reputation(st, peer_id, BENEFIT_VALID_MESSAGE)),
             go |-> FALSE]
      [] result.result = "TooFarInFuture" ->
            [st |-> modify_reputation(st, peer_id, COST_ASSIGNMENT_TOO_FAR_IN_THE_FUTURE),
             go |-> FALSE]
      [] result.result = "Bad" ->
            [st |-> modify_reputation(st, peer_id, COST_INVALID_MESSAGE), go |-> FALSE]
      [] OTHER -> [st |-> st, go |-> TRUE]

\* Lines 1105-1159 for a peer's check result: reputation and ledgers.
\* The record says whether the import goes on to circulate.
assignment_result_step(st, result) ==
    LET peer_id == result.peer_id
        block_hash == result.msg.block_hash
        message_subject == result.message_subject
        entry == st.blocks[block_hash]
        note_received(s) ==
            IF peer_id \in DOMAIN entry.known_by
            THEN [s EXCEPT !.blocks[block_hash].known_by[peer_id].received =
                              Knowledge_insert(@, message_subject, "Assignment")]
            ELSE s
    IN
    CASE result.result = "Accepted" ->
            LET st1 == note_received(modify_reputation(st, peer_id, BENEFIT_VALID_MESSAGE_FIRST))
            IN  IF ~Knowledge_insert_novel(entry.knowledge, message_subject, "Assignment")
                THEN [st |-> st1, go |-> FALSE]
                ELSE [st |-> [st1 EXCEPT !.blocks[block_hash].knowledge =
                                  Knowledge_insert(@, message_subject, "Assignment")],
                      go |-> TRUE]
      [] result.result = "AcceptedDuplicate" ->
            [st |-> note_received(st), go |-> FALSE]
      [] result.result = "TooFarInFuture" ->
            [st |-> modify_reputation(st, peer_id, COST_ASSIGNMENT_TOO_FAR_IN_THE_FUTURE),
             go |-> FALSE]
      [] result.result = "Bad" ->
            [st |-> modify_reputation(st, peer_id, COST_INVALID_MESSAGE), go |-> FALSE]
      [] OTHER -> [st |-> st, go |-> TRUE]

\* A variant that rewards the peer before it looks the block up.
finish_assignment_import_and_circulate_rewarding_late(st, result, R) ==
    IF result.msg.block_hash \notin DOMAIN st.blocks
    THEN modify_reputation(st, result.peer_id, BENEFIT_VALID_MESSAGE_FIRST)
    ELSE IF result.peer_id # Null
         THEN LET r == assignment_result_step(st, result)
              IN  IF r.go THEN circulate_assignment(r.st, result, R) ELSE r.st
         ELSE circulate_assignment(st, result, R)

finish_assignment_import_and_circulate(st, result, R) ==
    IF result.msg.block_hash \notin DOMAIN st.blocks
    THEN st   \* Block got finalized, bail out
    ELSE IF result.peer_id # Null
         THEN LET r == assignment_result_step(st, result)
              IN  IF r.go THEN circulate_assignment(r.st, result, R) ELSE r.st
         ELSE circulate_assignment(st, result, R)

(***************************************************************************)
(* start_assignment_import                                                 *)
(***************************************************************************)
\* A variant that drops the assignment of a peer out of view.
start_assignment_import_in_view_only(st, source, assignment, R, force_start) ==
    LET block_hash == assignment.block_hash
        message_subject == SubjectOf(assignment)
        message_kind == "Assignment"
        peer_id == source_peer_id(source)
    IN
    IF ~force_start
       /\ (~is_queue_idle(st, message_subject) \/ ~is_queue_empty(st, message_subject))
       /\ peer_id # Null
    THEN queue_message(st, peer_id, assignment)
    ELSE IF block_hash \notin DOMAIN st.blocks
    THEN IF peer_id # Null /\ ~is_recent_outdated(st.recent_outdated_blocks, block_hash)
         THEN modify_reputation(st, peer_id, COST_UNEXPECTED_MESSAGE)
         ELSE st
    ELSE
    LET entry == st.blocks[block_hash] IN
    IF peer_id # Null
    THEN
        IF peer_id \in DOMAIN entry.known_by
           /\ PeerKnowledge_contains(entry.known_by[peer_id], message_subject, message_kind)
        THEN \* Check if we already received this message from this peer.
             LET novel == Knowledge_insert_novel(entry.known_by[peer_id].received,
                                                 message_subject, message_kind)
                 st1 == [st EXCEPT !.blocks[block_hash].known_by[peer_id].received =
                                      Knowledge_insert(@, message_subject, message_kind)]
             IN  IF ~novel
                 THEN modify_reputation(st1, peer_id, COST_DUPLICATE_MESSAGE)
                 ELSE st1
        ELSE
        LET st1 == IF peer_id \notin DOMAIN entry.known_by
                   THEN modify_reputation(st, peer_id, COST_UNEXPECTED_MESSAGE)
                   ELSE st
        IN
        IF peer_id \notin DOMAIN entry.known_by THEN st1
        ELSE
        IF Knowledge_contains(entry.knowledge, message_subject, message_kind)
        THEN \* the assignment is known to be valid, reward the peer
             LET st2 == modify_reputation(st1, peer_id, BENEFIT_VALID_MESSAGE)
             IN  IF peer_id \in DOMAIN entry.known_by
                 THEN [st2 EXCEPT !.blocks[block_hash].known_by[peer_id].received =
                                     Knowledge_insert(@, message_subject, message_kind)]
                 ELSE st2
        ELSE start_check_work(
                 Emit(st1, CheckAndImportAssignment(message_subject, peer_id)),
                 message_subject,
                 PendingCheck(message_subject, peer_id, assignment))
    ELSE
        IF ~Knowledge_insert_novel(entry.knowledge, message_subject, message_kind)
        THEN st   \* Importing locally an already known assignment
        ELSE finish_assignment_import_and_circulate(
                 [st EXCEPT !.blocks[block_hash].knowledge =
                               Knowledge_insert(@, message_subject, message_kind)],
                 CheckResult(message_subject, Null, assignment, Null),
                 R)

start_assignment_import(st, source, assignment, R, force_start) ==
    LET block_hash == assignment.block_hash
        message_subject == SubjectOf(assignment)
        message_kind == "Assignment"
        peer_id == source_peer_id(source)
    IN
    IF ~force_start
       /\ (~is_queue_idle(st, message_subject) \/ ~is_queue_empty(st, message_subject))
       /\ peer_id # Null
    THEN queue_message(st, peer_id, assignment)
    ELSE IF block_hash \notin DOMAIN st.blocks
    THEN IF peer_id # Null /\ ~is_recent_outdated(st.recent_outdated_blocks, block_hash)
         THEN modify_reputation(st, peer_id, COST_UNEXPECTED_MESSAGE)
         ELSE st
    ELSE
    LET entry == st.blocks[block_hash] IN
    IF peer_id # Null
    THEN
        IF peer_id \in DOMAIN entry.known_by
           /\ PeerKnowledge_contains(entry.known_by[peer_id], message_subject, message_kind)
        THEN \* Check if we already received this message from this peer.
             LET novel == Knowledge_insert_novel(entry.known_by[peer_id].received,
                                                 message_subject, message_kind)
                 st1 == [st EXCEPT !.blocks[block_hash].known_by[peer_id].received =
                                      Knowledge_insert(@, message_subject, message_kind)]
             IN  IF ~novel
                 THEN modify_reputation(st1, peer_id, COST_DUPLICATE_MESSAGE)
                 ELSE st1
        ELSE
        LET st1 == IF peer_id \notin DOMAIN entry.known_by
                   THEN modify_reputation(st, peer_id, COST_UNEXPECTED_MESSAGE)
                   ELSE st
        IN
        IF Knowledge_contains(entry.knowledge, message_subject, message_kind)
        THEN \* the assignment is known to be valid, reward the peer
             LET st2 == modify_reputation(st1, peer_id, BENEFIT_VALID_MESSAGE)
             IN  IF peer_id \in DOMAIN entry.known_by
                 THEN [st2 EXCEPT !.blocks[block_hash].known_by[peer_id].received =
                                     Knowledge_insert(@, message_subject, message_kind)]
                 ELSE st2
        ELSE start_check_work(
                 Emit(st1, CheckAndImportAssignment(message_subject, peer_id)),
                 message_subject,
                 PendingCheck(message_subject, peer_id, assignment))
    ELSE
        IF ~Knowledge_insert_novel(entry.knowledge, message_subject, message_kind)
        THEN st   \* Importing locally an already known assignment
        ELSE finish_assignment_import_and_circulate(
                 [st EXCEPT !.blocks[block_hash].knowledge =
                               Knowledge_insert(@, message_subject, message_kind)],
                 CheckResult(message_subject, Null, assignment, Null),
                 R)


(***************************************************************************)
(* finish_approval_import_and_circulate                                    *)
(***************************************************************************)
\* A variant of the upgrade that starts the random routing counter afresh.
approve_message_state_afresh(old, signature) ==
    MessageState(old.required_routing, old.local, RandomRouting_default,
                 Approved(old.approval_state.cert, signature))

\* Lines 1478-1497: the first approval of an Assigned message.
approve_message_state(old, signature) ==
    [old EXCEPT !.approval_state = Approved(old.approval_state.cert, signature)]

\* A variant of the peer filter that looks at the grid only.
approval_peer_filter_grid_only(in_topology, knowledge, message_subject) == in_topology

\* The peer_filter closure, past the check of the source peer: the peer is
\* in the required routing or was sent the assignment.
approval_peer_filter(in_topology, knowledge, message_subject) ==
    in_topology \/ Knowledge_contains(knowledge.sent, message_subject, "Assignment")

\* Lines 1474-1605: upgrade the message state and send to the routing set.
circulate_approval(st, result) ==
    LET peer_id == result.peer_id
        block_hash == result.msg.block_hash
        validator_index == result.msg.validator
        candidate_index == result.msg.candidate_index
        message_subject == result.message_subject
        entry == st.blocks[block_hash]
    IN
    IF ~HasCandidate(entry, candidate_index) THEN st
    ELSE
    LET messages == entry.candidates[candidate_index + 1] IN
    IF validator_index \notin DOMAIN messages
    THEN \* Importing an approval we don't have an assignment for
         st
    ELSE
    LET old == messages[validator_index]
        first == (old.approval_state.tag = "Assigned")
        required_routing == IF first THEN old.required_routing ELSE "None"
        new_state ==
            IF first
            THEN approve_message_state(old, result.msg.signature)
            ELSE old
        topology == get_topology(st.topologies, entry.session)
        in_topology(p) ==
            topology # NoTopology /\ route_to_peer(topology, required_routing, p)
        peers == { p \in DOMAIN entry.known_by :
                     p # peer_id
                     /\ approval_peer_filter(in_topology(p), entry.known_by[p],
                                              message_subject) }
        filtered_peers ==
            { p \in peers :
                ~PeerKnowledge_contains(entry.known_by[p], message_subject, "Approval") }
        known_by2 ==
            [p \in DOMAIN entry.known_by |->
                IF p \in filtered_peers
                THEN [entry.known_by[p] EXCEPT
                        !.sent = Knowledge_insert(@, message_subject, "Approval")]
                ELSE entry.known_by[p]]
        entry2 == [entry EXCEPT
                     !.candidates[candidate_index + 1] =
                         Put(messages, validator_index, new_state),
                     !.known_by = known_by2]
        st2 == [st EXCEPT !.blocks[block_hash] = entry2]
    IN  IF filtered_peers # {}
        THEN Emit(st2, SendValidationMessage(filtered_peers, "Approvals", {message_subject}))
        ELSE st2

\* Lines 1438-1465 for a peer's check result.
\* A variant whose Bad arm notes the vote as received from the peer.
approval_result_step_noting_bad(st, result) ==
    LET peer_id == result.peer_id
        block_hash == result.msg.block_hash
        message_subject == result.message_subject
        entry == st.blocks[block_hash]
        st0 == modify_reputation(st, peer_id,
                                 IF result.result = "Bad" THEN COST_INVALID_MESSAGE
                                 ELSE BENEFIT_VALID_MESSAGE_FIRST)
        st1 == IF peer_id \in DOMAIN entry.known_by
               THEN [st0 EXCEPT !.blocks[block_hash].known_by[peer_id].received =
                                   Knowledge_insert(@, message_subject, "Approval")]
               ELSE st0
    IN  IF result.result = "Bad" THEN [st |-> st1, go |-> FALSE]
        ELSE IF ~Knowledge_insert_novel(entry.knowledge, message_subject, "Approval")
             THEN [st |-> st1, go |-> FALSE]
             ELSE [st |-> [st1 EXCEPT !.blocks[block_hash].knowledge =
                               Knowledge_insert(@, message_subject, "Approval")],
                   go |-> TRUE]

approval_result_step(st, result) ==
    LET peer_id == result.peer_id
        block_hash == result.msg.block_hash
        message_subject == result.message_subject
        entry == st.blocks[block_hash]
    IN
    CASE result.result = "Accepted" ->
            LET st0 == modify_reputation(st, peer_id, BENEFIT_VALID_MESSAGE_FIRST)
                st1 == IF peer_id \in DOMAIN entry.known_by
                       THEN [st0 EXCEPT !.blocks[block_hash].known_by[peer_id].received =
                                           Knowledge_insert(@, message_subject, "Approval")]
                       ELSE st0
            IN  IF ~Knowledge_insert_novel(entry.knowledge, message_subject, "Approval")
                THEN [st |-> st1, go |-> FALSE]
                ELSE [st |-> [st1 EXCEPT !.blocks[block_hash].knowledge =
                                  Knowledge_insert(@, message_subject, "Approval")],
                      go |-> TRUE]
      [] result.result = "Bad" ->
            [st |-> modify_reputation(st, peer_id, COST_INVALID_MESSAGE), go |-> FALSE]
      [] OTHER -> [st |-> st, go |-> TRUE]

finish_approval_import_and_circulate(st, result) ==
    IF result.msg.block_hash \notin DOMAIN st.blocks
    THEN st   \* Block got finalized, bail out
    ELSE IF result.peer_id # Null
         THEN LET r == approval_result_step(st, result)
              IN  IF r.go THEN circulate_approval(r.st, result) ELSE r.st
         ELSE circulate_approval(st, result)

(***************************************************************************)
(* get_approval_signatures                                                 *)
(***************************************************************************)
\* A variant that takes the messages in Assigned state as well.
get_approval_signatures_of_all(bs, indices) ==
    LET pairs ==
            UNION { IF x[1] \in DOMAIN bs /\ x[2] + 1 <= Len(bs[x[1]].candidates)
                    THEN { <<v, bs[x[1]].candidates[x[2] + 1][v].approval_state.signature>> :
                             v \in DOMAIN bs[x[1]].candidates[x[2] + 1] }
                    ELSE {} : x \in indices }
    IN  { all_sigs \in [{ q[1] : q \in pairs } -> { q[2] : q \in pairs }] :
            \A v \in DOMAIN all_sigs : <<v, all_sigs[v]>> \in pairs }

\* The maps the query may return.  `pairs` are the (validator index,
\* signature) pairs that the loop over `indices` feeds to all_sigs.extend;
\* `indices` is a HashSet, so that of two signatures of one validator either
\* may be the one that stays.
get_approval_signatures(bs, indices) ==
    LET pairs ==
            UNION { IF x[1] \in DOMAIN bs /\ x[2] + 1 <= Len(bs[x[1]].candidates)
                    THEN { <<v, bs[x[1]].candidates[x[2] + 1][v].approval_state.signature>> :
                             v \in { w \in DOMAIN bs[x[1]].candidates[x[2] + 1] :
                                       bs[x[1]].candidates[x[2] + 1][w].approval_state.tag
                                          = "Approved" } }
                    ELSE {} : x \in indices }
    IN  { all_sigs \in [{ q[1] : q \in pairs } -> { q[2] : q \in pairs }] :
            \A v \in DOMAIN all_sigs : <<v, all_sigs[v]>> \in pairs }

(***************************************************************************)
(* start_approval_import                                                   *)
(***************************************************************************)
start_approval_import(st, source, vote, force_start) ==
    LET block_hash == vote.block_hash
        candidate_index == vote.candidate_index
        message_subject == SubjectOf(vote)
        message_kind == "Approval"
        peer_id == source_peer_id(source)
    IN
    IF ~force_start
       /\ (~is_queue_idle(st, message_subject) \/ ~is_queue_empty(st, message_subject))
       /\ peer_id # Null
    THEN queue_message(st, peer_id, vote)
    ELSE IF ~(block_hash \in DOMAIN st.blocks
              /\ HasCandidate(st.blocks[block_hash], candidate_index))
    THEN IF peer_id # Null /\ ~is_recent_outdated(st.recent_outdated_blocks, block_hash)
         THEN modify_reputation(st, peer_id, COST_UNEXPECTED_MESSAGE)
         ELSE st
    ELSE
    LET entry == st.blocks[block_hash] IN
    IF peer_id # Null
    THEN
        IF ~Knowledge_contains(entry.knowledge, message_subject, "Assignment")
        THEN \* Unknown approval assignment
             modify_reputation(st, peer_id, COST_UNEXPECTED_MESSAGE)
        ELSE
        IF peer_id \in DOMAIN entry.known_by
           /\ PeerKnowledge_contains(entry.known_by[peer_id], message_subject, message_kind)
        THEN LET novel == Knowledge_insert_novel(entry.known_by[peer_id].received,
                                                 message_subject, message_kind)
                 st1 == [st EXCEPT !.blocks[block_hash].known_by[peer_id].received =
                                      Knowledge_insert(@, message_subject, message_kind)]
             IN  IF ~novel
                 THEN modify_reputation(st1, peer_id, COST_DUPLICATE_MESSAGE)
                 ELSE st1
        ELSE
        LET st1 == IF peer_id \notin DOMAIN entry.known_by
                   THEN modify_reputation(st, peer_id, COST_UNEXPECTED_MESSAGE)
                   ELSE st
        IN
        IF Knowledge_contains(entry.knowledge, message_subject, message_kind)
        THEN \* the approval is known to be valid, reward the peer
             LET st2 == modify_reputation(st1, peer_id, BENEFIT_VALID_MESSAGE)
             IN  IF peer_id \in DOMAIN entry.known_by
                 THEN [st2 EXCEPT !.blocks[block_hash].known_by[peer_id].received =
                                     Knowledge_insert(@, message_subject, message_kind)]
                 ELSE st2
        ELSE start_check_work(
                 Emit(st1, CheckAndImportApproval(message_subject, peer_id)),
                 message_subject,
                 PendingCheck(message_subject, peer_id, vote))
    ELSE
        IF ~Knowledge_insert_novel(entry.knowledge, message_subject, message_kind)
        THEN st   \* Importing locally an already known approval
        ELSE finish_approval_import_and_circulate(
                 [st EXCEPT !.blocks[block_hash].knowledge =
                               Knowledge_insert(@, message_subject, message_kind)],
                 CheckResult(message_subject, Null, vote, Null))

\* One message handed to the import that matches its kind.
start_import(st, source, message, R, force_start) ==
    IF message.kind = "Assignment"
    THEN start_assignment_import(st, source, message, R, force_start)
    ELSE start_approval_import(st, source, message, force_start)

(***************************************************************************)
(* run_inner: the drain loop after a check result (lines 2090-2118 and     *)
(* 2136-2164).  Each intermediate state is bound as the one element of a   *)
(* set, so that it is computed once.                                       *)
(***************************************************************************)
Only(S) == CHOOSE x \in S : TRUE

\* A variant that takes one message out of the backlog and stops.
drain_queue_once(st, message_subject, R) ==
    LET next == pop_next_message_value(st, message_subject)
        st1 == pop_next_message(st, message_subject)
    IN  IF next = NoMessage THEN st1
        ELSE start_import(st1, next[1], next[2], R, TRUE)

RECURSIVE drain_queue(_, _, _)
drain_queue(st, message_subject, R) ==
    LET next == pop_next_message_value(st, message_subject)
        st1 == pop_next_message(st, message_subject)
    IN  IF next = NoMessage THEN st1
        ELSE Only({ IF ~is_queue_idle(st2, message_subject) THEN st2
                    ELSE drain_queue(st2, message_subject, R) :
                    st2 \in { start_import(st1, next[1], next[2], R, TRUE) } })

\* Ok(result) of the oldest pending assignment check.
on_assignment_check_result(st, result, R) ==
    Only({ drain_queue(set_queue_idle(st1, result.message_subject, FALSE),
                       result.message_subject, R) :
           st1 \in { finish_assignment_import_and_circulate(st, result, R) } })

\* Ok(result) of the oldest pending approval check.
on_approval_check_result(st, result, R) ==
    Only({ drain_queue(set_queue_idle(st1, result.message_subject, FALSE),
                       result.message_subject, R) :
           st1 \in { finish_approval_import_and_circulate(st, result) } })

\* Err(PendingCheckCanceled): logged, nothing else.
on_check_canceled(st, pending) == st


(***************************************************************************)
(* unify_with_peer                                                         *)
(***************************************************************************)
SeqOfSet(order, S) ==
    LET In(x) == x \in S IN SelectSeq(order, In)

\* Lines 1682-1753: the peer becomes aware of `block` and is sent the
\* messages of the block that pass the routing filter.
unify_block(entry, block, peer_id, topology, total_peers, R) ==
    LET msgs == MessagesOf(entry)
        subject(m) == MessageSubject(block, m[1], m[2])
        state(m) == StateOfMessage(entry, m[1], m[2])
        in_topology(m) ==
            topology # NoTopology /\ route_to_peer(topology, state(m).required_routing, peer_id)
        route_random(m) ==
            ~in_topology(m)
            /\ RandomRouting_sample(state(m).random_routing, total_peers,
                                    <<peer_id, subject(m)>> \in R)
        passes == { m \in msgs : in_topology(m) \/ route_random(m) }
        peer_knowledge == PeerKnowledge_default
        assignments ==
            { subject(m) : m \in
                { x \in passes :
                    ~PeerKnowledge_contains(peer_knowledge, subject(x), "Assignment") } }
        approvals ==
            { subject(m) : m \in
                { x \in passes :
                    state(x).approval_state.tag = "Approved"
                    /\ ~PeerKnowledge_contains(peer_knowledge, subject(x), "Approval") } }
        sent == [s \in assignments \cup approvals |->
                    IF s \in approvals THEN "Approval" ELSE "Assignment"]
        candidates2 ==
            [i \in 1..Len(entry.candidates) |->
                [v \in DOMAIN entry.candidates[i] |->
                    IF route_random(<<i - 1, v>>)
                    THEN [entry.candidates[i][v] EXCEPT !.random_routing.sent = @ + 1]
                    ELSE entry.candidates[i][v]]]
    IN  [entry |-> [entry EXCEPT
                      !.known_by = Put(@, peer_id, [sent |-> sent, received |-> Knowledge_default]),
                      !.candidates = candidates2],
         assignments |-> assignments,
         approvals |-> approvals]

\* The walk from one head of the view through its ancestors.
RECURSIVE unify_walk(_, _, _, _, _, _, _)
unify_walk(acc, topologies, block, peer_id, view_finalized_number, total_peers, R) ==
    IF block \notin DOMAIN acc.blocks THEN acc
    ELSE IF ~(acc.blocks[block].number > view_finalized_number) THEN acc
    ELSE IF peer_id \in DOMAIN acc.blocks[block].known_by THEN acc
    ELSE LET entry == acc.blocks[block]
             u == unify_block(entry, block, peer_id,
                              get_topology(topologies, entry.session), total_peers, R)
         IN  unify_walk(
                 [blocks |-> [acc.blocks EXCEPT ![block] = u.entry],
                  assignments |-> acc.assignments \cup u.assignments,
                  approvals |-> acc.approvals \cup u.approvals],
                 topologies, entry.parent_hash, peer_id, view_finalized_number,
                 total_peers, R)

RECURSIVE unify_heads(_, _, _, _, _, _, _)
unify_heads(acc, topologies, heads, peer_id, view_finalized_number, total_peers, R) ==
    IF heads = <<>> THEN acc
    ELSE unify_heads(
             unify_walk(acc, topologies, Head(heads), peer_id, view_finalized_number,
                        total_peers, R),
             topologies, Tail(heads), peer_id, view_finalized_number, total_peers, R)

\* Assignments are sent before approvals.
unify_with_peer_approvals_first(st, total_peers, peer_id, view, R) ==
    LET acc == unify_heads(
                   [blocks |-> st.blocks, assignments |-> {}, approvals |-> {}],
                   st.topologies, SeqOfSet(HashOrder, view.heads), peer_id,
                   view.finalized_number, total_peers, R)
        st1 == [st EXCEPT !.blocks = acc.blocks]
        st2 == IF acc.approvals # {}
               THEN Emit(st1, SendValidationMessage({peer_id}, "Approvals", acc.approvals))
               ELSE st1
    IN  IF acc.assignments # {}
        THEN Emit(st2, SendValidationMessage({peer_id}, "Assignments", acc.assignments))
        ELSE st2

unify_with_peer(st, total_peers, peer_id, view, R) ==
    LET acc == unify_heads(
                   [blocks |-> st.blocks, assignments |-> {}, approvals |-> {}],
                   st.topologies, SeqOfSet(HashOrder, view.heads), peer_id,
                   view.finalized_number, total_peers, R)
        st1 == [st EXCEPT !.blocks = acc.blocks]
        st2 == IF acc.assignments # {}
               THEN Emit(st1, SendValidationMessage({peer_id}, "Assignments", acc.assignments))
               ELSE st1
    IN  IF acc.approvals # {}
        THEN Emit(st2, SendValidationMessage({peer_id}, "Approvals", acc.approvals))
        ELSE st2

(***************************************************************************)
(* adjust_required_routing_and_propagate.  The two closures the callers    *)
(* pass are records naming the closure and what it captures.               *)
(***************************************************************************)
\* A variant that lets every block pass.
block_filter_every(f, block_entry) == TRUE

\* block_filter closures: does the block pass.
block_filter(f, block_entry) ==
    CASE f.kind = "session" -> block_entry.session = f.session
      [] f.kind = "resend" ->
            LET block_age == f.max_age - block_entry.number
            IN  f.resend = "Yes"
                /\ f.config.resend_unfinalized_period # None
                /\ block_age > 0
                /\ block_age % f.config.resend_unfinalized_period = 0
      [] f.kind = "oldest" -> block_entry.number = f.min_age

\* A variant in which the filter leaves the ledgers alone.
block_filter_effect_keeping(f, block_entry) == block_entry

\* The block after the filter ran on it: the resend filter empties the sent
\* ledger of every peer of a block that passes.
block_filter_effect(f, block_entry) ==
    IF f.kind = "resend" /\ block_filter(f, block_entry)
    THEN [block_entry EXCEPT
            !.known_by = [p \in DOMAIN @ |-> [@[p] EXCEPT !.sent = Knowledge_default]]]
    ELSE block_entry

\* A variant that leaves every required routing as it is.
routing_modifier_idle(m, required_routing, local, validator_index) == required_routing

\* A variant whose aggression also widens a routing that awaits its topology.
routing_modifier_eager(m, required_routing, local, validator_index) ==
    CASE m.kind = "topology" ->
            IF required_routing = "PendingTopology"
            THEN required_routing_by_index(m.topology, validator_index, local)
            ELSE required_routing
      [] m.kind = "noop" -> required_routing
      [] m.kind = "aggression" ->
            IF m.config.l1_threshold # None /\ m.diff >= m.config.l1_threshold /\ local
            THEN "All"
            ELSE IF m.config.l2_threshold # None /\ m.diff >= m.config.l2_threshold
                    /\ ~local
                 THEN "GridXY" ELSE required_routing

\* routing_modifier closures: the required routing after the modifier.
routing_modifier(m, required_routing, local, validator_index) ==
    CASE m.kind = "topology" ->
            IF required_routing = "PendingTopology"
            THEN required_routing_by_index(m.topology, validator_index, local)
            ELSE required_routing
      [] m.kind = "noop" -> required_routing
      [] m.kind = "aggression" ->
            IF required_routing = "PendingTopology" THEN required_routing
            ELSE LET l1 == IF m.config.l1_threshold # None
                              /\ m.diff >= m.config.l1_threshold
                              /\ local /\ required_routing # "All"
                           THEN "All" ELSE required_routing
                 IN  IF m.config.l2_threshold # None
                        /\ m.diff >= m.config.l2_threshold
                        /\ ~local /\ l1 # "GridXY"
                     THEN "GridXY" ELSE l1

\* One block that passed the filter: modify the routing of every message and
\* send each message to the peers of the block in its required routing.
adjust_block(entry0, block_hash, topology, f, m) ==
    LET entry == block_filter_effect(f, entry0)
        candidates2 ==
            [i \in 1..Len(entry.candidates) |->
                [v \in DOMAIN entry.candidates[i] |->
                    [entry.candidates[i][v] EXCEPT
                        !.required_routing =
                            routing_modifier(m, @, entry.candidates[i][v].local, v)]]]
        entry1 == [entry EXCEPT !.candidates = candidates2]
        msgs == MessagesOf(entry1)
        subject(x) == MessageSubject(block_hash, x[1], x[2])
        state(x) == StateOfMessage(entry1, x[1], x[2])
        routed(x, p) ==
            ~RequiredRouting_is_empty(state(x).required_routing)
            /\ topology # NoTopology
            /\ route_to_peer(topology, state(x).required_routing, p)
        assignments(p) ==
            { subject(x) : x \in
                { y \in msgs :
                    routed(y, p)
                    /\ ~PeerKnowledge_contains(entry1.known_by[p], subject(y), "Assignment") } }
        approvals(p) ==
            { subject(x) : x \in
                { y \in msgs :
                    routed(y, p)
                    /\ state(y).approval_state.tag = "Approved"
                    /\ ~PeerKnowledge_contains(entry1.known_by[p], subject(y), "Approval") } }
        sent2(p) ==
            [s \in (DOMAIN entry1.known_by[p].sent) \cup assignments(p) \cup approvals(p) |->
                IF s \in approvals(p) THEN "Approval"
                ELSE IF s \in assignments(p) THEN "Assignment"
                ELSE entry1.known_by[p].sent[s]]
    IN  [entry |-> [entry1 EXCEPT
                      !.known_by = [p \in DOMAIN @ |-> [@[p] EXCEPT !.sent = sent2(p)]]],
         assignments |-> [p \in DOMAIN entry1.known_by |-> assignments(p)],
         approvals |-> [p \in DOMAIN entry1.known_by |-> approvals(p)]]

\* The per-peer packets of one kind, one SendValidationMessage per peer.
RECURSIVE emit_packets(_, _, _, _)
emit_packets(st, peers, kind, packets) ==
    IF peers = <<>> THEN st
    ELSE LET p == Head(peers)
             st1 == IF packets[p] # {}
                    THEN Emit(st, SendValidationMessage({p}, kind, packets[p]))
                    ELSE st
         IN  emit_packets(st1, Tail(peers), kind, packets)

\* A variant that modifies the routing and sends nothing.
adjust_required_routing_silently(st, f, m) ==
    [st EXCEPT !.blocks =
        [h \in DOMAIN @ |->
            IF block_filter(f, @[h])
            THEN [adjust_block(@[h], h, get_topology(st.topologies, @[h].session), f, m).entry
                     EXCEPT !.known_by = block_filter_effect(f, st.blocks[h]).known_by]
            ELSE @[h]]]

adjust_required_routing_and_propagate(st, f, m) ==
    LET passing == { h \in DOMAIN st.blocks : block_filter(f, st.blocks[h]) }
        adj(h) == adjust_block(st.blocks[h], h,
                               get_topology(st.topologies, st.blocks[h].session), f, m)
        blocks2 == [h \in DOMAIN st.blocks |->
                      IF h \in passing THEN adj(h).entry ELSE st.blocks[h]]
        packet(p, kind) ==
            UNION { IF p \in DOMAIN st.blocks[h].known_by
                    THEN (IF kind = "Assignments"
                          THEN adj(h).assignments[p] ELSE adj(h).approvals[p])
                    ELSE {} : h \in passing }
        peer_assignments == [p \in Peers |-> packet(p, "Assignments")]
        peer_approvals == [p \in Peers |-> packet(p, "Approvals")]
        st1 == [st EXCEPT !.blocks = blocks2]
    IN  emit_packets(emit_packets(st1, PeerOrder, "Assignments", peer_assignments),
                     PeerOrder, "Approvals", peer_approvals)

(***************************************************************************)
(* enable_aggression                                                       *)
(***************************************************************************)
enable_aggression(st, resend) ==
    IF DOMAIN st.blocks_by_number = {} THEN st
    ELSE
    LET min_age == Min(DOMAIN st.blocks_by_number)
        max_age == Max(DOMAIN st.blocks_by_number)
        config == st.aggression_config
        diff == max_age - min_age
    IN  IF ~is_age_relevant(config, diff) THEN st
        ELSE adjust_required_routing_and_propagate(
                 adjust_required_routing_and_propagate(
                     st,
                     [kind |-> "resend", resend |-> resend, config |-> config,
                      max_age |-> max_age],
                     [kind |-> "noop"]),
                 [kind |-> "oldest", min_age |-> min_age],
                 [kind |-> "aggression", config |-> config, diff |-> diff])


(***************************************************************************)
(* handle_new_blocks                                                       *)
(***************************************************************************)
\* A variant that lists the hash of every meta, vacant or not.
RECURSIVE insert_metas_listing_again(_, _)
insert_metas_listing_again(acc, metas) ==
    IF metas = <<>> THEN acc
    ELSE LET meta == Head(metas)
             st == acc.st
         IN  IF meta.hash \in DOMAIN st.blocks
             THEN insert_metas_listing_again(
                      [acc EXCEPT !.st.blocks_by_number =
                          Put(@, meta.number,
                              Append(IF meta.number \in DOMAIN @
                                     THEN @[meta.number] ELSE <<>>,
                                     meta.hash))],
                      Tail(metas))
             ELSE insert_metas_listing_again(
                      [st |-> [st EXCEPT
                                 !.blocks = Put(@, meta.hash, NewBlockEntry(meta)),
                                 !.topologies = inc_session_refs(@, meta.session),
                                 !.blocks_by_number =
                                     Put(@, meta.number,
                                         Append(IF meta.number \in DOMAIN @
                                                THEN @[meta.number] ELSE <<>>,
                                                meta.hash))],
                       new_hashes |-> acc.new_hashes \cup {meta.hash}],
                      Tail(metas))

\* Lines 596-623: one BlockEntry per meta whose hash is vacant.
RECURSIVE insert_metas(_, _)
insert_metas(acc, metas) ==
    IF metas = <<>> THEN acc
    ELSE LET meta == Head(metas)
             st == acc.st
         IN  IF meta.hash \in DOMAIN st.blocks
             THEN insert_metas(acc, Tail(metas))
             ELSE insert_metas(
                      [st |-> [st EXCEPT
                                 !.blocks = Put(@, meta.hash, NewBlockEntry(meta)),
                                 !.topologies = inc_session_refs(@, meta.session),
                                 !.blocks_by_number =
                                     Put(@, meta.number,
                                         Append(IF meta.number \in DOMAIN @
                                                THEN @[meta.number] ELSE <<>>,
                                                meta.hash))],
                       new_hashes |-> acc.new_hashes \cup {meta.hash}],
                      Tail(metas))

\* Lines 633-647: unify every connected peer with the new heads of its view.
RECURSIVE unify_new_blocks(_, _, _, _)
unify_new_blocks(st, peers, new_hashes, R) ==
    IF peers = <<>> THEN st
    ELSE LET peer_id == Head(peers)
             view == st.peer_views[peer_id]
             view_intersection == View(view.heads \cap new_hashes, view.finalized_number)
         IN  unify_new_blocks(
                 unify_with_peer(st, Cardinality(DOMAIN st.peer_views), peer_id,
                                 view_intersection, R),
                 Tail(peers), new_hashes, R)

\* The buffered messages of the hashes, concatenated.
RECURSIVE pending_to_import(_, _)
pending_to_import(pending_known, hashes) ==
    IF hashes = <<>> THEN <<>>
    ELSE pending_known[Head(hashes)] \o pending_to_import(pending_known, Tail(hashes))

\* A variant that imports the newest buffered message first.
RECURSIVE import_pending_newest_first(_, _, _)
import_pending_newest_first(st, to_import, R) ==
    IF to_import = <<>> THEN st
    ELSE import_pending_newest_first(
             start_import(st, to_import[Len(to_import)][1], to_import[Len(to_import)][2],
                          R, FALSE),
             SubSeq(to_import, 1, Len(to_import) - 1), R)

RECURSIVE import_pending(_, _, _)
import_pending(st, to_import, R) ==
    IF to_import = <<>> THEN st
    ELSE import_pending(
             start_import(st, Head(to_import)[1], Head(to_import)[2], R, FALSE),
             Tail(to_import), R)

\* Lines 633-647, on the state and the new hashes insert_metas returned.
new_blocks_unify(ins, R) ==
    unify_new_blocks(ins.st, SeqOfSet(PeerOrder, DOMAIN ins.st.peer_views),
                     ins.new_hashes, R)

\* Lines 649-657: the hashes of pending_known that are now blocks, in order.
pending_now_known(st) ==
    SeqOfSet(HashOrder, { k \in DOMAIN st.pending_known : k \in DOMAIN st.blocks })

\* Lines 659-705: take the buffered messages of the known blocks out of
\* pending_known and import them.
new_blocks_import(st, R) ==
    import_pending(
        [st EXCEPT !.pending_known = [k \in (DOMAIN @) \ (DOMAIN st.blocks) |-> @[k]]],
        pending_to_import(st.pending_known, pending_now_known(st)),
        R)

handle_new_blocks(st, metas, R) ==
    enable_aggression(
        new_blocks_import(
            new_blocks_unify(insert_metas([st |-> st, new_hashes |-> {}], metas), R),
            R),
        "Yes")

(***************************************************************************)
(* handle_new_session_topology                                             *)
(***************************************************************************)
handle_new_session_topology(st, session, topology, local_index) ==
    IF local_index = None THEN st
    ELSE LET st1 == [st EXCEPT !.topologies = insert_topology(@, session, topology)]
             stored == get_topology(st1.topologies, session)
         IN  adjust_required_routing_and_propagate(
                 st1,
                 [kind |-> "session", session |-> session],
                 [kind |-> "topology", topology |-> stored])

(***************************************************************************)
(* process_incoming_peer_message                                           *)
(***************************************************************************)
RECURSIVE process_incoming_peer_message(_, _, _, _)
process_incoming_peer_message(st, peer_id, msgs, R) ==
    IF msgs = <<>> THEN st
    ELSE LET message == Head(msgs)
             st1 == IF message.block_hash \in DOMAIN st.pending_known
                    THEN [st EXCEPT !.pending_known[message.block_hash] =
                                       Append(@, <<peer_id, message>>)]
                    ELSE start_import(st, peer_id, message, R, FALSE)
         IN  process_incoming_peer_message(st1, peer_id, Tail(msgs), R)

(***************************************************************************)
(* handle_peer_view_change                                                 *)
(***************************************************************************)
RECURSIVE SeqOfNumbers(_)
SeqOfNumbers(S) ==
    IF S = {} THEN <<>> ELSE <<Min(S)>> \o SeqOfNumbers(S \ {Min(S)})

RECURSIVE hashes_in(_, _)
hashes_in(blocks_by_number, numbers) ==
    IF numbers = <<>> THEN <<>>
    ELSE blocks_by_number[Head(numbers)] \o hashes_in(blocks_by_number, Tail(numbers))

handle_peer_view_change(st, peer_id, view, R) ==
    LET finalized_number == view.finalized_number
        old_finalized_number ==
            IF peer_id \in DOMAIN st.peer_views
            THEN st.peer_views[peer_id].finalized_number
            ELSE 0
        st1 == IF peer_id \in DOMAIN st.peer_views
               THEN [st EXCEPT !.peer_views[peer_id] = view]
               ELSE st
        pruned ==
            IF old_finalized_number <= finalized_number /\ DOMAIN st.blocks # {}
            THEN { h \in DOMAIN st.blocks :
                     \E n \in DOMAIN st.blocks_by_number :
                        /\ old_finalized_number <= n /\ n <= finalized_number
                        /\ \E i \in 1..Len(st.blocks_by_number[n]) :
                              st.blocks_by_number[n][i] = h }
            ELSE {}
        st2 == [st1 EXCEPT !.blocks =
                   [h \in DOMAIN @ |->
                       IF h \in pruned
                       THEN [@[h] EXCEPT !.known_by = Remove(@, peer_id)]
                       ELSE @[h]]]
    IN  unify_with_peer(st2, Cardinality(DOMAIN st2.peer_views), peer_id, view, R)

(***************************************************************************)
(* handle_block_finalized                                                  *)
(***************************************************************************)
RECURSIVE prune_blocks(_, _)
prune_blocks(st, hashes) ==
    IF hashes = <<>> THEN st
    ELSE LET relay_block == Head(hashes)
             st1 == [st EXCEPT !.recent_outdated_blocks = note_outdated(@, relay_block)]
             st2 == IF relay_block \in DOMAIN st1.blocks
                    THEN [st1 EXCEPT
                            !.topologies =
                                dec_session_refs(@, st1.blocks[relay_block].session),
                            !.blocks = Remove(@, relay_block)]
                    ELSE st1
         IN  prune_blocks(st2, Tail(hashes))

\* BlockNumber::saturating_add
saturating_add(a, b) == IF a > MaxBlockNumber - b THEN MaxBlockNumber ELSE a + b

\* split_off(&split_point) keeps the keys from split_point on.
handle_block_finalized(st, finalized_number) ==
    LET split_point == saturating_add(finalized_number, 1)
        old_numbers == { n \in DOMAIN st.blocks_by_number : n < split_point }
        old_blocks == hashes_in(st.blocks_by_number, SeqOfNumbers(old_numbers))
        st1 == [st EXCEPT !.blocks_by_number =
                   [n \in (DOMAIN @) \ old_numbers |-> @[n]]]
    IN  enable_aggression(prune_blocks(st1, old_blocks), "No")

(***************************************************************************)
(* handle_network_msg: the arms that are not a call of a handler above.    *)
(***************************************************************************)
View_default == View({}, 0)

peer_connected(st, peer_id) ==
    IF peer_id \in DOMAIN st.peer_views THEN st
    ELSE [st EXCEPT !.peer_views = Put(@, peer_id, View_default)]

\* A variant that forgets the view of the peer and nothing else.
peer_disconnected_view_only(st, peer_id) ==
    [st EXCEPT !.peer_views = Remove(@, peer_id)]

peer_disconnected(st, peer_id) ==
    [st EXCEPT
        !.peer_views = Remove(@, peer_id),
        !.blocks = [h \in DOMAIN @ |-> [@[h] EXCEPT !.known_by = Remove(@, peer_id)]]]

our_view_change(st, view) ==
    LET added == [h \in (DOMAIN st.pending_known)
                           \cup { x \in view.heads : x \notin DOMAIN st.blocks } |->
                     IF h \in DOMAIN st.pending_known THEN st.pending_known[h] ELSE <<>>]
    IN  [st EXCEPT !.pending_known =
            [h \in { x \in DOMAIN added : x \in view.heads } |-> added[h]]]


(***************************************************************************)
(* The state of the subsystem.                                             *)
(***************************************************************************)
VARIABLES
    blocks,                     \* State::blocks
    blocks_by_number,           \* State::blocks_by_number
    pending_known,              \* State::pending_known
    peer_views,                 \* State::peer_views
    topologies,                 \* State::topologies
    recent_outdated_blocks,     \* State::recent_outdated_blocks (its buf)
    aggression_config,          \* State::aggression_config
    pending_assignment_checks,  \* ImportPipeline::pending_assignment_checks
    pending_vote_checks,        \* ImportPipeline::pending_vote_checks
    pending_messages,           \* ImportPipeline::pending_messages
    pending_work,               \* ImportPipeline::pending_work
    outbox,                     \* messages sent by the handler of the last event
    running,                    \* the loop of run_inner has not returned
    transmitted,                \* <<peer, subject, kind>> sent before the last event
    nevents,                    \* overseer inputs handled so far (modulo 2 if unbounded)
    env,                        \* the network around the node: its peers and blocks
    last,                       \* the event the loop handled last
    overseer_ready,             \* ctx.recv() has an input ready as the loop selects
    upgraded,                   \* ledger cells seen at Approval whose ledger lives on
    ledger,                     \* a Knowledge on its own
    inserted                    \* the last insert into `ledger`

vars == <<blocks, blocks_by_number, pending_known, peer_views, topologies,
          recent_outdated_blocks, aggression_config, pending_assignment_checks,
          pending_vote_checks, pending_messages, pending_work, outbox, running,
          transmitted, nevents, env, last, overseer_ready, upgraded, ledger, inserted>>


\* The state the current handler starts from; its outbox is empty.
Cur ==
    [blocks |-> blocks,
     blocks_by_number |-> blocks_by_number,
     pending_known |-> pending_known,
     peer_views |-> peer_views,
     topologies |-> topologies,
     recent_outdated_blocks |-> recent_outdated_blocks,
     aggression_config |-> aggression_config,
     pending_assignment_checks |-> pending_assignment_checks,
     pending_vote_checks |-> pending_vote_checks,
     pending_messages |-> pending_messages,
     pending_work |-> pending_work,
     outbox |-> <<>>]

\* <<peer, subject, kind>> of every assignment or approval in the messages.
KindOfBatch(batch_kind) == IF batch_kind = "Assignments" THEN "Assignment" ELSE "Approval"

\* A cell of a ledger: <<side, block, peer, subject>>; the sides are our
\* knowledge of the block and the sent and received ledgers of a peer.
LedgerOfCell(bs, c) ==
    CASE c[1] = "ours" -> bs[c[2]].knowledge
      [] c[1] = "sent" -> bs[c[2]].known_by[c[3]].sent
      [] OTHER -> bs[c[2]].known_by[c[3]].received

CellExists(bs, c) ==
    /\ c[2] \in DOMAIN bs
    /\ c[1] = "ours" \/ c[3] \in DOMAIN bs[c[2]].known_by

ApprovalCells(bs) ==
    UNION { { <<"ours", h, Null, s>> :
                s \in { x \in DOMAIN bs[h].knowledge : bs[h].knowledge[x] = "Approval" } }
            \cup UNION { { <<"sent", h, p, s>> :
                             s \in { x \in DOMAIN bs[h].known_by[p].sent :
                                       bs[h].known_by[p].sent[x] = "Approval" } }
                         \cup { <<"received", h, p, s>> :
                                  s \in { x \in DOMAIN bs[h].known_by[p].received :
                                            bs[h].known_by[p].received[x] = "Approval" } } :
                         p \in DOMAIN bs[h].known_by } :
            h \in DOMAIN bs }

SentTriples(msgs) ==
    UNION { IF msgs[i].type = "SendValidationMessage"
            THEN { <<p, s, KindOfBatch(msgs[i].kind)>> :
                      p \in msgs[i].peers, s \in msgs[i].subjects }
            ELSE {} : i \in 1..Len(msgs) }

\* The inputs keep every backlog and buffer within MaxQueue.
QueueBounded(st) ==
    /\ \A s \in DOMAIN st.pending_messages : Len(st.pending_messages[s]) <= MaxQueue
    /\ \A h \in DOMAIN st.pending_known : Len(st.pending_known[h]) <= MaxQueue

\* Whether an input is ready when the loop comes back to the select: the
\* overseer may have sent one meanwhile, as long as it has inputs left.
MayBeReady(n) ==
    IF env.max_events = None \/ n < env.max_events THEN BOOLEAN ELSE {FALSE}

Store(st) ==
    /\ QueueBounded(st)
    /\ blocks' = st.blocks
    /\ blocks_by_number' = st.blocks_by_number
    /\ pending_known' = st.pending_known
    /\ peer_views' = st.peer_views
    /\ topologies' = st.topologies
    /\ recent_outdated_blocks' = st.recent_outdated_blocks
    /\ aggression_config' = st.aggression_config
    /\ pending_assignment_checks' = st.pending_assignment_checks
    /\ pending_vote_checks' = st.pending_vote_checks
    /\ pending_messages' = st.pending_messages
    /\ pending_work' = st.pending_work
    /\ outbox' = st.outbox
    /\ transmitted' = transmitted \cup SentTriples(outbox)
    /\ running' = running
    /\ upgraded' = { c \in upgraded : CellExists(st.blocks, c) } \cup ApprovalCells(st.blocks)
    /\ UNCHANGED <<ledger, inserted>>
    /\ overseer_ready' \in MayBeReady(nevents')

\* The handler's result, computed once, becomes the next state.
Commit(st) == \E result \in {st} : Store(result)

\* The record of an event: its arm of the select, the peer and the message it
\* carries, the verifier's result, and what held when it arrived: `busy` (a
\* check of the subject was flagged running or its backlog was not empty) and
\* `dup` (the peer's received ledger of the block held the message).  A
\* BlockFinalized carries its number and a NewBlocks its metas; a
\* PeerViewChange carries the peer and the finalized number of the view, a
\* PeerDisconnected the peer.  `raced`: an input of the overseer was ready
\* while a check was pending.
Event(type, peer, message_subject, kind, result, busy, dup) ==
    [type |-> type, peer |-> peer, subject |-> message_subject, kind |-> kind,
     result |-> result, busy |-> busy, dup |-> dup, number |-> None, metas |-> <<>>,
     raced |-> overseer_ready /\ (pending_assignment_checks \o pending_vote_checks) # <<>>]

PlainEvent(type) == Event(type, Null, NoMessage, Null, Null, FALSE, FALSE)

Busy(message_subject) ==
    ~is_queue_idle(Cur, message_subject) \/ ~is_queue_empty(Cur, message_subject)

ReceivedFrom(peer_id, message_subject, kind) ==
    /\ message_subject[1] \in DOMAIN blocks
    /\ peer_id \in DOMAIN blocks[message_subject[1]].known_by
    /\ Knowledge_contains(blocks[message_subject[1]].known_by[peer_id].received,
                          message_subject, kind)

\* A variant of the select that polls its arms in no order.
select_unbiased(ready, arm) == TRUE

\* futures::select_biased!: the arms are polled in the order they are written
\* and the first that is ready is taken.  ctx.recv() is the first arm: the arm
\* of a check is taken only when no input of the overseer is ready.
select_biased(ready, arm) == arm = "overseer" \/ ~ready

\* The kinds of input that the overseer sends, apart from Conclude.
InputKinds ==
    {"NewBlocks", "BlockFinalized", "PeerConnected", "PeerDisconnected",
     "NewGossipTopology", "PeerViewChange", "OurViewChange", "PeerMessage",
     "DistributeAssignment", "DistributeApproval", "GetApprovalSignatures"}

\* The kinds of input that block import, finality, the views of the peers,
\* the topology and our own votes bring.
ChainInputKinds ==
    {"NewBlocks", "BlockFinalized", "PeerConnected", "NewGossipTopology",
     "PeerViewChange", "DistributeAssignment", "DistributeApproval"}

\* The kinds of input that bring messages and route them.
GossipInputKinds ==
    {"NewBlocks", "NewGossipTopology", "PeerViewChange", "PeerMessage",
     "DistributeAssignment", "DistributeApproval"}

\* An input of the kind received from the overseer (ctx.recv()).
OverseerInput(input) ==
    /\ running
    /\ select_biased(overseer_ready, "overseer")
    /\ input \in env.inputs
    /\ env.max_events # None => nevents < env.max_events
    /\ nevents' = IF env.max_events = None THEN (nevents + 1) % 2 ELSE nevents + 1
    /\ env' = env

\* The oldest check of a queue of pending checks completed.
CheckCompleted(checks) ==
    /\ running
    /\ checks # <<>>
    /\ select_biased(overseer_ready, "check")
    /\ UNCHANGED <<nevents, env>>

\* The networks the node runs in, how it is configured and what the overseer
\* sends: two peers and the chain h1 <- h2, with messages and topologies; one
\* peer and the block h1; one peer and the chain, with thresholds of
\* aggression that the age of h1 reaches; one peer and the block h3; one peer
\* and the chain, with l2_threshold set and no l1_threshold; one peer and the
\* chain under three configurations that the span of the chain, 1, tells
\* apart: an l1_threshold above the span with l2_threshold and
\* resend_unfinalized_period at the span, no l1_threshold and a period that
\* divides the span, no l1_threshold and a period that does not.
Environments ==
    { [peers |-> Peers, hashes |-> {"h1", "h2"}, voted |-> {"h1"},
       max_events |-> MaxEventsWide,
       inputs |-> GossipInputKinds,
       aggression_config |-> DefaultAggressionConfig],
      [peers |-> {"p1"}, hashes |-> {"h1"}, voted |-> {"h1"},
       max_events |-> MaxEventsNarrow,
       inputs |-> InputKinds,
       aggression_config |-> DefaultAggressionConfig],
      [peers |-> {"p1"}, hashes |-> {"h1", "h2"}, voted |-> {"h1", "h2"},
       max_events |-> MaxEventsAged,
       inputs |-> ChainInputKinds,
       aggression_config |-> AggressionConfig(1, 1, 1)],
      [peers |-> {"p1"}, hashes |-> {"h3"}, voted |-> {"h3"},
       max_events |-> MaxEventsEdge,
       inputs |-> InputKinds,
       aggression_config |-> DefaultAggressionConfig],
      [peers |-> {"p1"}, hashes |-> {"h1", "h2"}, voted |-> {"h1"},
       max_events |-> MaxEventsLevel2,
       inputs |-> GossipInputKinds \cup {"GetApprovalSignatures"},
       aggression_config |-> AggressionConfig(None, 1, None)],
      [peers |-> {"p1"}, hashes |-> {"h1", "h2"}, voted |-> {"h1", "h2"},
       max_events |-> MaxEventsGated,
       inputs |-> ChainInputKinds,
       aggression_config |-> AggressionConfig(2, 1, 1)],
      [peers |-> {"p1"}, hashes |-> {"h1", "h2"}, voted |-> {"h1"},
       max_events |-> MaxEventsResend,
       inputs |-> ChainInputKinds,
       aggression_config |-> AggressionConfig(None, 1, 1)],
      [peers |-> {"p1"}, hashes |-> {"h1", "h2"}, voted |-> {"h1"},
       max_events |-> MaxEventsOdd,
       inputs |-> ChainInputKinds,
       aggression_config |-> AggressionConfig(None, 1, 2)] }

\* One peer and the block h1, with no end to the inputs.
SteadyEnvironment ==
    [peers |-> {"p1"}, hashes |-> {"h1"}, voted |-> {"h1"},
     max_events |-> None,
     inputs |-> InputKinds,
     aggression_config |-> DefaultAggressionConfig]

\* State::default() and an empty ImportPipeline, in the environment e.
SubsystemInit(e) ==
    /\ env = e
    /\ blocks = EmptyMap
    /\ blocks_by_number = EmptyMap
    /\ pending_known = EmptyMap
    /\ peer_views = EmptyMap
    /\ topologies = EmptyMap
    /\ recent_outdated_blocks = <<>>
    /\ aggression_config = env.aggression_config
    /\ pending_assignment_checks = <<>>
    /\ pending_vote_checks = <<>>
    /\ pending_messages = EmptyMap
    /\ pending_work = EmptyMap
    /\ outbox = <<>>
    /\ running = TRUE
    /\ transmitted = {}
    /\ nevents = 0
    /\ overseer_ready = FALSE
    /\ upgraded = {}
    /\ last = [type |-> "Init", peer |-> Null, subject |-> NoMessage, kind |-> Null,
               result |-> Null, busy |-> FALSE, dup |-> FALSE, number |-> None,
               metas |-> <<>>, raced |-> FALSE]

\* No insert was made into `ledger`.
NoInsertion ==
    [done |-> FALSE, before |-> Knowledge_default, message |-> NoMessage, kind |-> Null,
     novel |-> FALSE]

InitIn(e) ==
    /\ SubsystemInit(e)
    /\ ledger = Knowledge_default
    /\ inserted = NoInsertion

Init == \E e \in Environments : InitIn(e)

(***************************************************************************)
(* Inputs.                                                                 *)
(***************************************************************************)
SubjectsAll == env.voted \X CandidateIndices \X Validators

EnvMetaBatches ==
    { metas \in MetaBatches : \A i \in 1..Len(metas) : metas[i].hash \in env.hashes }
\* The numbers of the blocks, and 0: a block below the ones stored.
EnvFinalizedNumbers == {0} \cup { Meta(h).number : h \in env.hashes }
EnvPeerViews == { view \in PeerViews : view.heads \subseteq env.hashes }
EnvOurViews == { view \in OurViews : view.heads \subseteq env.hashes }

\* The queries for signatures: one candidate of a block, in range (0) or
\* out of range (1), or all of these at once.
EnvQueries ==
    { {<<h, c>>} : h \in env.hashes, c \in {0, 1} } \cup {env.hashes \X {0, 1}}

PeerMessages ==
    { AssignmentMsg(s[1], s[2], s[3], c) : s \in SubjectsAll, c \in Certs }
    \cup { ApprovalMsg(s[1], s[2], s[3], g) : s \in SubjectsAll, g \in Signatures }

\* The subjects of the messages stored for the blocks `hashes`.
StoredSubjects(hashes) ==
    UNION { { MessageSubject(h, m[1], m[2]) : m \in MessagesOf(blocks[h]) } :
            h \in hashes \cap DOMAIN blocks }

AssignmentResults == {"Accepted", "AcceptedDuplicate", "TooFarInFuture", "Bad"}
ApprovalResults == {"Accepted", "Bad"}

(***************************************************************************)
(* Actions: one per arm of the select of run_inner.                        *)
(***************************************************************************)
NewBlocks(metas) ==
    /\ OverseerInput("NewBlocks")
    /\ \E R \in SUBSET ((DOMAIN peer_views) \X StoredSubjects(DOMAIN blocks)) :
          Commit(handle_new_blocks(Cur, metas, R))
    /\ last' = [PlainEvent("NewBlocks") EXCEPT !.metas = metas]

BlockFinalized(number) ==
    /\ OverseerInput("BlockFinalized")
    /\ Commit(handle_block_finalized(Cur, number))
    /\ last' = [PlainEvent("BlockFinalized") EXCEPT !.number = number]

PeerConnected(peer_id) ==
    /\ OverseerInput("PeerConnected")
    /\ Commit(peer_connected(Cur, peer_id))
    /\ last' = PlainEvent("PeerConnected")

PeerDisconnected(peer_id) ==
    /\ OverseerInput("PeerDisconnected")
    /\ Commit(peer_disconnected(Cur, peer_id))
    /\ last' = [PlainEvent("PeerDisconnected") EXCEPT !.peer = peer_id]

NewGossipTopology(session, topology, local_index) ==
    /\ OverseerInput("NewGossipTopology")
    /\ Commit(handle_new_session_topology(Cur, session, topology, local_index))
    /\ last' = PlainEvent("NewGossipTopology")

PeerViewChange(peer_id, view) ==
    /\ OverseerInput("PeerViewChange")
    /\ \E R \in SUBSET ({peer_id} \X StoredSubjects(DOMAIN blocks)) :
          Commit(handle_peer_view_change(Cur, peer_id, view, R))
    /\ last' = [PlainEvent("PeerViewChange") EXCEPT !.peer = peer_id,
                                                 !.number = view.finalized_number]

OurViewChange(view) ==
    /\ OverseerInput("OurViewChange")
    /\ Commit(our_view_change(Cur, view))
    /\ last' = PlainEvent("OurViewChange")

PeerMessage(peer_id, message) ==
    /\ OverseerInput("PeerMessage")
    /\ Commit(process_incoming_peer_message(Cur, peer_id, <<message>>, {}))
    /\ last' = Event("PeerMessage", peer_id, SubjectOf(message), message.kind, Null,
                     Busy(SubjectOf(message)),
                     ReceivedFrom(peer_id, SubjectOf(message), message.kind))

DistributeAssignment(assignment) ==
    /\ OverseerInput("DistributeAssignment")
    /\ \E R \in SUBSET (env.peers \X {SubjectOf(assignment)}) :
          Commit(start_assignment_import(Cur, Local, assignment, R, FALSE))
    /\ last' = Event("DistributeAssignment", Null, SubjectOf(assignment), "Assignment",
                     Null, FALSE, FALSE)

DistributeApproval(vote) ==
    /\ OverseerInput("DistributeApproval")
    /\ Commit(start_approval_import(Cur, Local, vote, FALSE))
    /\ last' = Event("DistributeApproval", Null, SubjectOf(vote), "Approval",
                     Null, FALSE, FALSE)

\* GetApprovalSignatures(indices, tx): the map is sent back on tx; the
\* message of the outbox records the reply together with its request.
ApprovalSignatures(indices, sigs) ==
    [type |-> "ApprovalSignatures", indices |-> indices, sigs |-> sigs]

GetApprovalSignatures(indices) ==
    /\ OverseerInput("GetApprovalSignatures")
    /\ \E sigs \in get_approval_signatures(blocks, indices) :
          Commit(Emit(Cur, ApprovalSignatures(indices, sigs)))
    /\ last' = PlainEvent("GetApprovalSignatures")

\* OverseerSignal::Conclude, or ctx.recv() failing: run_inner returns.
Conclude ==
    /\ running
    /\ running' = FALSE
    /\ outbox' = <<>>
    /\ transmitted' = transmitted \cup SentTriples(outbox)
    /\ overseer_ready' = FALSE
    /\ UNCHANGED <<blocks, blocks_by_number, pending_known, peer_views, topologies,
                   recent_outdated_blocks, aggression_config, pending_assignment_checks,
                   pending_vote_checks, pending_messages, pending_work, nevents, env,
                   upgraded, ledger, inserted>>
    /\ last' = PlainEvent("Conclude")

\* The oldest pending assignment check yields Ok(result).
AssignmentCheckDone(result) ==
    /\ CheckCompleted(pending_assignment_checks)
    /\ LET pending == Head(pending_assignment_checks)
           st == [Cur EXCEPT !.pending_assignment_checks = Tail(@)]
       IN  \E R \in SUBSET (env.peers \X {pending.message_subject}) :
              Commit(on_assignment_check_result(
                         st,
                         CheckResult(pending.message_subject, pending.peer_id,
                                     pending.msg, result),
                         R))
    /\ last' = Event("CheckDone", Head(pending_assignment_checks).peer_id,
                     Head(pending_assignment_checks).message_subject, "Assignment", result, FALSE, FALSE)

\* The oldest pending approval check yields Ok(result).
ApprovalCheckDone(result) ==
    /\ CheckCompleted(pending_vote_checks)
    /\ LET pending == Head(pending_vote_checks)
           st == [Cur EXCEPT !.pending_vote_checks = Tail(@)]
       IN  Commit(on_approval_check_result(
                      st,
                      CheckResult(pending.message_subject, pending.peer_id,
                                  pending.msg, result),
                      {}))
    /\ last' = Event("CheckDone", Head(pending_vote_checks).peer_id,
                     Head(pending_vote_checks).message_subject, "Approval", result, FALSE, FALSE)

\* The reply channel of the oldest pending assignment check was dropped.
AssignmentCheckCanceled ==
    /\ CheckCompleted(pending_assignment_checks)
    /\ Commit(on_check_canceled([Cur EXCEPT !.pending_assignment_checks = Tail(@)],
                                Head(pending_assignment_checks)))
    /\ last' = Event("CheckCanceled", Head(pending_assignment_checks).peer_id,
                     Head(pending_assignment_checks).message_subject, "Assignment", "Canceled", FALSE, FALSE)

\* The reply channel of the oldest pending approval check was dropped.
ApprovalCheckCanceled ==
    /\ CheckCompleted(pending_vote_checks)
    /\ Commit(on_check_canceled([Cur EXCEPT !.pending_vote_checks = Tail(@)],
                                Head(pending_vote_checks)))
    /\ last' = Event("CheckCanceled", Head(pending_vote_checks).peer_id,
                     Head(pending_vote_checks).message_subject, "Approval", "Canceled", FALSE, FALSE)

Next ==
    \/ \E metas \in EnvMetaBatches : NewBlocks(metas)
    \/ \E number \in EnvFinalizedNumbers : BlockFinalized(number)
    \/ \E peer_id \in env.peers : PeerConnected(peer_id)
    \/ \E peer_id \in env.peers : PeerDisconnected(peer_id)
    \/ \E session \in Sessions, topology \in Topologies, local_index \in {None, 0} :
          NewGossipTopology(session, topology, local_index)
    \/ \E peer_id \in env.peers, view \in EnvPeerViews : PeerViewChange(peer_id, view)
    \/ \E view \in EnvOurViews : OurViewChange(view)
    \/ \E peer_id \in env.peers, message \in PeerMessages : PeerMessage(peer_id, message)
    \/ \E assignment \in { m \in PeerMessages : m.kind = "Assignment" } :
          DistributeAssignment(assignment)
    \/ \E vote \in { m \in PeerMessages : m.kind = "Approval" } : DistributeApproval(vote)
    \/ \E indices \in EnvQueries : GetApprovalSignatures(indices)
    \/ Conclude
    \/ \E result \in AssignmentResults : AssignmentCheckDone(result)
    \/ \E result \in ApprovalResults : ApprovalCheckDone(result)
    \/ AssignmentCheckCanceled
    \/ ApprovalCheckCanceled

Spec == Init /\ [][Next]_vars


(***************************************************************************)
(* Observations used by the properties.                                    *)
(***************************************************************************)
Subjects == Hashes \X CandidateIndices \X Validators

AllPendingChecks == pending_assignment_checks \o pending_vote_checks

\* The outstanding checks of one subject, oldest first per queue.
ChecksOf(checks, message_subject) ==
    SelectSeq(checks, LAMBDA c : c.message_subject = message_subject)

Backlog(queues, message_subject) ==
    IF message_subject \in DOMAIN queues THEN queues[message_subject] ELSE <<>>

\* The message of a subject and kind (each has one certificate or signature).
MessageOf(message_subject, kind) ==
    CHOOSE m \in { AssignmentMsg(message_subject[1], message_subject[2],
                                 message_subject[3], c) : c \in Certs }
                 \cup { ApprovalMsg(message_subject[1], message_subject[2],
                                    message_subject[3], g) : g \in Signatures } :
        m.kind = kind

\* <<peer, subject, kind>> carried by the i-th message of msgs.
TriplesAt(msgs, i) == SentTriples(<<msgs[i]>>)

\* The ledger we keep of the peer for the block of the subject holds the message.
LedgerHolds(bs, peer_id, message_subject, kind) ==
    /\ message_subject[1] \in DOMAIN bs
    /\ peer_id \in DOMAIN bs[message_subject[1]].known_by
    /\ \/ Knowledge_contains(bs[message_subject[1]].known_by[peer_id].sent,
                             message_subject, kind)
       \/ Knowledge_contains(bs[message_subject[1]].known_by[peer_id].received,
                             message_subject, kind)

(***************************************************************************)
(* C1: for every MessageSubject at most one verification request           *)
(* (CheckAndImportAssignment or CheckAndImportApproval) is outstanding at  *)
(* any time, over both queues of pending checks.                           *)
(***************************************************************************)
OneCheckPerSubject ==
    \A i, j \in 1..Len(AllPendingChecks) :
        AllPendingChecks[i].message_subject = AllPendingChecks[j].message_subject
            => i = j

\* A second peer message of a subject arrived while its check was outstanding.
SecondMessageWhileChecking ==
    /\ last.type = "PeerMessage"
    /\ last.busy
    /\ ChecksOf(AllPendingChecks, last.subject) # <<>>
    /\ Backlog(pending_messages, last.subject) # <<>>

\* What a peer message does that arrives while its subject is busy, how a
\* backlog shrinks, and when a check starts.
QueuedBehindCheck(with_pending_known) ==
    (/\ last'.type = "PeerMessage"
     /\ last'.busy
     /\ with_pending_known \/ last'.subject[1] \notin DOMAIN pending_known)
    => /\ Backlog(pending_messages', last'.subject)
            = Append(Backlog(pending_messages, last'.subject),
                     <<last'.peer, MessageOf(last'.subject, last'.kind)>>)
       /\ outbox' = <<>>
       /\ pending_assignment_checks' = pending_assignment_checks
       /\ pending_vote_checks' = pending_vote_checks

BacklogPoppedInOrder ==
    \A s \in Subjects :
        LET b == Backlog(pending_messages, s)
            b2 == Backlog(pending_messages', s)
            grown == Len(b2) >= Len(b) /\ SubSeq(b2, 1, Len(b)) = b
        IN  ~grown =>
              /\ last'.type = "CheckDone"
              /\ last'.subject = s
              /\ \E k \in 1..Len(b) :
                    /\ b2 = SubSeq(b, k + 1, Len(b))
                    /\ ChecksOf(pending_assignment_checks' \o pending_vote_checks', s)
                          \in { <<>>, <<PendingCheck(s, b[k][1], b[k][2])>> }

NoStartBeforeResult ==
    \A s \in Subjects :
        (/\ ChecksOf(AllPendingChecks, s) # <<>>
         /\ ~(last'.type \in {"CheckDone", "CheckCanceled"} /\ last'.subject = s))
        => ChecksOf(pending_assignment_checks' \o pending_vote_checks', s)
              = ChecksOf(AllPendingChecks, s)

(***************************************************************************)
(* C2 (as the code has it): a peer message of subject s that arrives while *)
(* a check of s is flagged running or the backlog of s is not empty, and   *)
(* whose block hash is not buffered in pending_known, is appended to the   *)
(* backlog of s and nothing is sent, the verifier included.  The backlog   *)
(* shrinks only in the step that handles the result of the outstanding     *)
(* check of s; that step pops a prefix of it in order and the one check it *)
(* may start is of the last message popped.  No check of s starts while    *)
(* another is outstanding.                                                 *)
(***************************************************************************)
BacklogIsFifo ==
    [][QueuedBehindCheck(FALSE) /\ BacklogPoppedInOrder /\ NoStartBeforeResult]_vars

\* C2 as the spec words it: every such message goes to the backlog of s.
BusyMessageAlwaysQueued == [][QueuedBehindCheck(TRUE)]_vars

\* A message was queued behind another one already in the backlog.
QueuedBehindBacklog ==
    /\ last.type = "PeerMessage"
    /\ last.busy
    /\ last.subject[1] \notin DOMAIN pending_known
    /\ Len(Backlog(pending_messages, last.subject)) >= 2


\* How often the messages carry the triple; the step runs the resend pass.
TimesSent(msgs, t) == Cardinality({ i \in 1..Len(msgs) : t \in TriplesAt(msgs, i) })

LedgerReset ==
    last'.type = "NewBlocks" /\ aggression_config.resend_unfinalized_period # None

(***************************************************************************)
(* C3 (as the code has it): the core sends (s, kind) to p once per ledger. *)
(* A handler other than a NewBlocks that runs the resend pass of           *)
(* aggression sends (s, kind) to p only if the ledger it keeps of p for    *)
(* the block lacks it, at most once, and records it in the sent side of    *)
(* that ledger.  The resend pass empties the sent side first, so that      *)
(* NewBlocks may send again what p was sent, up to twice in the one        *)
(* handler (by unify_with_peer and then by the pass).  The ledger is       *)
(* dropped by PeerDisconnected and by a peer view change that finalizes    *)
(* the block; a later unify_with_peer sends again.                         *)
(***************************************************************************)
SentOncePerLedger ==
    [][\A t \in SentTriples(outbox') :
          IF LedgerReset
          THEN TimesSent(outbox', t) <= 2
          ELSE /\ TimesSent(outbox', t) = 1
               /\ ~LedgerHolds(blocks, t[1], t[2], t[3])
               /\ t[2][1] \in DOMAIN blocks'
               /\ t[1] \in DOMAIN blocks'[t[2][1]].known_by
               /\ Knowledge_contains(blocks'[t[2][1]].known_by[t[1]].sent, t[2], t[3])]_vars

\* C3 as the spec words it: nothing sent now was sent before.
NeverSentTwice == SentTriples(outbox) \cap transmitted = {}

\* A message is sent to a peer that was already sent it.
SentAgain ==
    \E t \in SentTriples(outbox) :
        /\ t \in transmitted
        /\ LedgerHolds(blocks, t[1], t[2], t[3])

\* An earlier message of the step carries the Assignment to the peer.
AssignmentEarlierInStep(msgs, i, peer_id, message_subject) ==
    \E j \in 1..(i - 1) : <<peer_id, message_subject, "Assignment">> \in TriplesAt(msgs, j)

(***************************************************************************)
(* C4 (as the code has it): when an Approval of s is sent to p, either the *)
(* Assignment of s was sent to p earlier in the same handler, or the       *)
(* ledger kept of p for the block already held the Assignment of s: sent   *)
(* to p before, or received from p.                                        *)
(***************************************************************************)
ApprovalFollowsAssignment ==
    [][\A i \in 1..Len(outbox') :
          \A t \in TriplesAt(outbox', i) :
              t[3] = "Approval" =>
                 \/ AssignmentEarlierInStep(outbox', i, t[1], t[2])
                 \/ LedgerHolds(blocks, t[1], t[2], "Assignment")]_vars

\* C4 as the spec words it: the Assignment was sent to p, earlier or in the
\* same step.
ApprovalFollowsSentAssignment ==
    [][\A i \in 1..Len(outbox') :
          \A t \in TriplesAt(outbox', i) :
              t[3] = "Approval" =>
                 \/ AssignmentEarlierInStep(outbox', i, t[1], t[2])
                 \/ <<t[1], t[2], "Assignment">> \in transmitted']_vars

\* An Approval is sent to the peer the Assignment was received from.
ApprovalSentToAssignmentSource ==
    \E t \in SentTriples(outbox) :
        /\ t[3] = "Approval"
        /\ <<t[1], t[2], "Assignment">> \notin transmitted \cup SentTriples(outbox)
        /\ t[2][1] \in DOMAIN blocks
        /\ t[1] \in DOMAIN blocks[t[2][1]].known_by
        /\ Knowledge_contains(blocks[t[2][1]].known_by[t[1]].received, t[2], "Assignment")

\* The kind at which a stored message circulates.
StoredKind(state) == IF state.approval_state.tag = "Approved" THEN "Approval" ELSE "Assignment"

(***************************************************************************)
(* C5: at every quiescent point, for every stored block b, every peer p in *)
(* b.known_by and every message s stored for b whose session topology is   *)
(* known: the ledger kept of p holds s at the stored kind, or              *)
(* route_to_peer(required_routing, p) is false.                            *)
(***************************************************************************)
RoutedPeersKnow ==
    \A h \in DOMAIN blocks :
        LET topology == get_topology(topologies, blocks[h].session)
        IN  topology # NoTopology =>
              \A peer_id \in DOMAIN blocks[h].known_by, x \in MessagesOf(blocks[h]) :
                  LET state == StateOfMessage(blocks[h], x[1], x[2])
                  IN  \/ LedgerHolds(blocks, peer_id, MessageSubject(h, x[1], x[2]),
                                     StoredKind(state))
                      \/ ~route_to_peer(topology, state.required_routing, peer_id)

\* A stored approval is routed to a peer of the block by the grid.
RoutedPeerKnowsApproval ==
    \E h \in DOMAIN blocks :
        /\ get_topology(topologies, blocks[h].session) # NoTopology
        /\ \E peer_id \in DOMAIN blocks[h].known_by, x \in MessagesOf(blocks[h]) :
              /\ route_to_peer(get_topology(topologies, blocks[h].session),
                               StateOfMessage(blocks[h], x[1], x[2]).required_routing,
                               peer_id)
              /\ StateOfMessage(blocks[h], x[1], x[2]).approval_state.tag = "Approved"
              /\ LedgerHolds(blocks, peer_id, MessageSubject(h, x[1], x[2]), "Approval")


(***************************************************************************)
(* The pending checks are futures that resolve: each queue of checks that  *)
(* is not empty eventually yields the result of its oldest check, or its   *)
(* cancellation.                                                           *)
(***************************************************************************)
AssignmentCheckResolves ==
    (\E result \in AssignmentResults : AssignmentCheckDone(result)) \/ AssignmentCheckCanceled

ApprovalCheckResolves ==
    (\E result \in ApprovalResults : ApprovalCheckDone(result)) \/ ApprovalCheckCanceled

\* The inputs of a network in which nothing is finalized and no peer leaves.
InputArrives ==
    \/ \E metas \in EnvMetaBatches : NewBlocks(metas)
    \/ \E peer_id \in env.peers : PeerConnected(peer_id)
    \/ \E peer_id \in env.peers, view \in EnvPeerViews : PeerViewChange(peer_id, view)
    \/ \E peer_id \in env.peers, message \in PeerMessages : PeerMessage(peer_id, message)

SteadyNext ==
    \/ InputArrives
    \/ AssignmentCheckResolves
    \/ ApprovalCheckResolves

\* The loop of run_inner goes on for ever and every pending check resolves.
FairSpec ==
    /\ InitIn(SteadyEnvironment)
    /\ [][SteadyNext]_vars
    /\ WF_vars(AssignmentCheckResolves)
    /\ WF_vars(ApprovalCheckResolves)

(***************************************************************************)
(* C6: when the reply channel of the check of subject s is dropped, the    *)
(* loop goes on running and s is idle again (is_queue_idle(s) holds).      *)
(***************************************************************************)
CanceledSubjectIsIdle ==
    last.type = "CheckCanceled" => running /\ is_queue_idle(Cur, last.subject)

\* Overseer inputs never cease (their count is kept modulo 2 where it has no
\* bound).
InputsKeepArriving == []<>(nevents = 0) /\ []<>(nevents = 1)

(***************************************************************************)
(* C7: after the check of subject s was canceled, the messages in the      *)
(* backlog of s are eventually dequeued, as long as inputs keep arriving.  *)
(***************************************************************************)
CanceledBacklogDrains ==
    InputsKeepArriving =>
        \A s \in Subjects :
            (last.type = "CheckCanceled" /\ last.subject = s
                /\ Backlog(pending_messages, s) # <<>>)
            ~> (Backlog(pending_messages, s) = <<>>)

\* The message reports the reputation change rep.
IsReport(msg, rep) == msg.type = "ReportPeer" /\ msg.rep = rep

RedeliveryChangesNothing ==
    [][(last'.type = "PeerMessage" /\ last'.dup)
       => /\ \A i \in 1..Len(outbox') :
                outbox'[i].type \notin {"CheckAndImportAssignment", "CheckAndImportApproval",
                                        "SendValidationMessage"}
          /\ pending_assignment_checks' = pending_assignment_checks
          /\ pending_vote_checks' = pending_vote_checks
          /\ DOMAIN blocks' = DOMAIN blocks
          /\ \A h \in DOMAIN blocks :
                /\ blocks'[h].knowledge = blocks[h].knowledge
                /\ blocks'[h].candidates = blocks[h].candidates]_vars

\* A message we hold was delivered again by the peer we had it from.
Redelivered ==
    /\ last.type = "PeerMessage"
    /\ last.dup
    /\ Knowledge_contains(blocks[last.subject[1]].knowledge, last.subject, last.kind)

\* The message of the event arrives with no check of its subject running and
\* no backlog, and its block is stored.
ArrivesAtStoredBlock ==
    /\ last'.type = "PeerMessage"
    /\ ~last'.busy
    /\ last'.subject[1] \in DOMAIN blocks

ApprovalWithoutAssignment ==
    /\ ArrivesAtStoredBlock
    /\ last'.kind = "Approval"
    /\ ~Knowledge_contains(blocks[last'.subject[1]].knowledge, last'.subject, "Assignment")

FromPeerOutOfView ==
    /\ ArrivesAtStoredBlock
    /\ last'.peer \notin DOMAIN blocks[last'.subject[1]].known_by
    /\ Knowledge_contains(blocks[last'.subject[1]].knowledge, last'.subject, "Assignment")
          \/ last'.kind = "Assignment"

ApprovalOfUnknownSubject ==
    /\ last'.type = "PeerMessage"
    /\ last'.kind = "Approval"
    /\ last'.subject[1] \in DOMAIN blocks
    /\ last'.subject \notin DOMAIN blocks[last'.subject[1]].knowledge

\* The messages of the handler that call the verifier or go to peers.
VerifierCalls(msgs) ==
    { i \in 1..Len(msgs) :
        msgs[i].type \in {"CheckAndImportAssignment", "CheckAndImportApproval"} }

PeerSends(msgs) == { i \in 1..Len(msgs) : msgs[i].type = "SendValidationMessage" }

Reports(msgs) == { i \in 1..Len(msgs) : msgs[i].type = "ReportPeer" }

(***************************************************************************)
(* C11: when a peer sends an approval of a subject whose assignment is not *)
(* in our knowledge of the (stored) block, no verifier request is issued,  *)
(* nothing is sent to peers, no check is added to the pipeline, and every  *)
(* block entry (our knowledge, the ledgers of the peers, the states of the *)
(* messages) is left as it was.                                            *)
(***************************************************************************)
ApprovalNeedsAssignment ==
    [][ApprovalOfUnknownSubject
       => /\ VerifierCalls(outbox') = {}
          /\ PeerSends(outbox') = {}
          /\ pending_assignment_checks' = pending_assignment_checks
          /\ pending_vote_checks' = pending_vote_checks
          /\ blocks' = blocks]_vars

\* A connected peer sent an approval to a block of which we know no message.
ApprovalArrivedFirst ==
    /\ last.type = "PeerMessage"
    /\ last.kind = "Approval"
    /\ last.peer \in DOMAIN peer_views
    /\ last.subject[1] \in DOMAIN blocks
    /\ blocks[last.subject[1]].knowledge = Knowledge_default
    /\ outbox = <<>>

(***************************************************************************)
(* C12: a peer message (assignment or approval) whose block hash is held   *)
(* in RecentlyOutdated produces no ReportPeer, no call of the verifier and *)
(* no send to peers.                                                       *)
(***************************************************************************)
OutdatedMessageIsSilent ==
    [][(/\ last'.type = "PeerMessage"
        /\ is_recent_outdated(recent_outdated_blocks, last'.subject[1]))
       => /\ Reports(outbox') = {}
          /\ VerifierCalls(outbox') = {}
          /\ PeerSends(outbox') = {}]_vars

\* A peer message arrived for a block that was pruned and is not stored.
OutdatedMessageArrived ==
    /\ last.type = "PeerMessage"
    /\ is_recent_outdated(recent_outdated_blocks, last.subject[1])
    /\ last.subject[1] \notin DOMAIN blocks
    /\ outbox = <<>>

\* The blocks whose number is above n.
KeptAbove(n) == { h \in DOMAIN blocks : blocks[h].number > n }

\* What the aggression pass may change of a block entry: the required
\* routing of its messages and the sent side of the ledgers of its peers.
SameButRouting(e1, e2) ==
    /\ e2.number = e1.number
    /\ e2.parent_hash = e1.parent_hash
    /\ e2.session = e1.session
    /\ e2.knowledge = e1.knowledge
    /\ DOMAIN e2.known_by = DOMAIN e1.known_by
    /\ \A p \in DOMAIN e1.known_by : e2.known_by[p].received = e1.known_by[p].received
    /\ Len(e2.candidates) = Len(e1.candidates)
    /\ \A i \in 1..Len(e1.candidates) :
          /\ DOMAIN e2.candidates[i] = DOMAIN e1.candidates[i]
          /\ \A v \in DOMAIN e1.candidates[i] :
                [e2.candidates[i][v] EXCEPT
                    !.required_routing = e1.candidates[i][v].required_routing]
                  = e1.candidates[i][v]

\* The age of the blocks left does not call for aggression.
AggressionIdle ==
    \/ DOMAIN blocks_by_number' = {}
    \/ ~is_age_relevant(aggression_config,
                        Max(DOMAIN blocks_by_number') - Min(DOMAIN blocks_by_number'))

(***************************************************************************)
(* C13: BlockFinalized(n) removes from the store exactly the blocks with   *)
(* number <= n, from blocks and from blocks_by_number, notes every removed *)
(* hash in RecentlyOutdated, and leaves every block with number > n as it  *)
(* was (knowledge, known_by, message states), apart from what the          *)
(* aggression pass that follows changes.                                   *)
(***************************************************************************)
FinalizedPrunesUpTo ==
    [][last'.type = "BlockFinalized"
       => /\ DOMAIN blocks' = KeptAbove(last'.number)
          /\ DOMAIN blocks_by_number'
                = { k \in DOMAIN blocks_by_number : k > last'.number }
          /\ \A k \in DOMAIN blocks_by_number' :
                /\ k \in DOMAIN blocks_by_number
                /\ blocks_by_number'[k] = blocks_by_number[k]
          /\ \A h \in (DOMAIN blocks) \ KeptAbove(last'.number) :
                is_recent_outdated(recent_outdated_blocks', h)
          /\ \A h \in KeptAbove(last'.number) \cap DOMAIN blocks' :
                /\ SameButRouting(blocks[h], blocks'[h])
                /\ AggressionIdle => blocks'[h] = blocks[h]]_vars

\* BlockFinalized pruned a block and kept a later one.
FinalizedPrunedSome ==
    /\ last.type = "BlockFinalized"
    /\ blocks # EmptyMap
    /\ \E h \in DOMAIN blocks : blocks[h].number > last.number
    /\ \E i \in 1..Len(recent_outdated_blocks) :
          Meta(recent_outdated_blocks[i]).number <= last.number

\* The hashes the step removed from the store.
PrunedNow == (DOMAIN blocks) \ (DOMAIN blocks')

\* buf2 is buf with `dropped` hashes taken from its front and the hashes of
\* the set `added` pushed to its back.
FifoStep(buf, buf2, dropped, added) ==
    /\ Len(buf2) >= Len(buf) - dropped
    /\ SubSeq(buf2, 1, Len(buf) - dropped) = SubSeq(buf, dropped + 1, Len(buf))
    /\ { buf2[i] : i \in (Len(buf) - dropped + 1)..Len(buf2) } = added
    /\ dropped > 0 => Len(buf2) = MAX_BUF_LEN

(***************************************************************************)
(* C14: RecentlyOutdated holds the most recently pruned block hashes, at   *)
(* most MAX_BUF_LEN of them, each once; only a step that prunes changes    *)
(* it, pushing the hashes it pruned to the back and evicting from the      *)
(* front what exceeds the capacity (FIFO).                                 *)
(***************************************************************************)
RecentlyOutdatedIsExact ==
    [][/\ Len(recent_outdated_blocks') <= MAX_BUF_LEN
       /\ \A i, j \in 1..Len(recent_outdated_blocks') :
             recent_outdated_blocks'[i] = recent_outdated_blocks'[j] => i = j
       /\ \E dropped \in 0..Len(recent_outdated_blocks) :
             FifoStep(recent_outdated_blocks, recent_outdated_blocks', dropped, PrunedNow)]_vars

(***************************************************************************)
(* C15: after BlockFinalized(n), a NewBlocks that carries only blocks with *)
(* number <= n is a no-op: no BlockEntry is created, blocks and            *)
(* blocks_by_number are unchanged, and nothing is sent.                    *)
(***************************************************************************)
FinalizedBlocksStayOut ==
    [][(/\ last.type = "BlockFinalized"
        /\ last'.type = "NewBlocks"
        /\ \A i \in 1..Len(last'.metas) : last'.metas[i].number <= last.number)
       => /\ blocks' = blocks
          /\ blocks_by_number' = blocks_by_number
          /\ outbox' = <<>>]_vars

(***************************************************************************)
(* Knowledge on its own: a ledger drawn from all ledgers over the          *)
(* subjects, and inserts into it.                                          *)
(***************************************************************************)
MessageKinds == {"Assignment", "Approval"}

Ledgers == UNION { [S -> MessageKinds] : S \in SUBSET Subjects }

KnowledgeInit ==
    /\ SubsystemInit(SteadyEnvironment)
    /\ ledger \in Ledgers
    /\ inserted = NoInsertion

\* ledger.insert(message, kind)
Insert(message, kind) ==
    /\ inserted' = [done |-> TRUE, before |-> ledger, message |-> message, kind |-> kind,
                    novel |-> Knowledge_insert_novel(ledger, message, kind)]
    /\ ledger' = Knowledge_insert(ledger, message, kind)
    /\ UNCHANGED <<blocks, blocks_by_number, pending_known, peer_views, topologies,
                   recent_outdated_blocks, aggression_config, pending_assignment_checks,
                   pending_vote_checks, pending_messages, pending_work, outbox, running,
                   transmitted, nevents, env, last, overseer_ready, upgraded>>

KnowledgeNext == \E message \in Subjects, kind \in MessageKinds : Insert(message, kind)

KnowledgeSpec == KnowledgeInit /\ [][KnowledgeNext]_vars

(***************************************************************************)
(* C16: Knowledge.insert(subject, kind) adds a vacant entry or upgrades    *)
(* Assignment to Approval, never changes Approval to Assignment, returns   *)
(* true iff it added or upgraded, and afterwards contains(subject, kind)   *)
(* holds; contains(s, Approval) implies contains(s, Assignment), and an    *)
(* Assignment alone does not make contains(s, Approval) hold.              *)
(***************************************************************************)
InsertAddsOrUpgrades ==
    inserted.done =>
        LET b == inserted.before
            m == inserted.message
            k == inserted.kind
        IN  /\ m \notin DOMAIN b => ledger = Put(b, m, k)
            /\ (m \in DOMAIN b /\ b[m] = "Assignment" /\ k = "Approval")
                  => ledger = Put(b, m, "Approval")
            /\ (m \in DOMAIN b /\ (b[m] = "Approval" \/ k = "Assignment")) => ledger = b
            /\ inserted.novel <=> ledger # b
            /\ Knowledge_contains(ledger, m, k)
            /\ \A s \in Subjects :
                  /\ Knowledge_contains(ledger, s, "Approval")
                        => Knowledge_contains(ledger, s, "Assignment")
                  /\ (s \in DOMAIN ledger /\ ledger[s] = "Assignment")
                        => ~Knowledge_contains(ledger, s, "Approval")

\* An Approval was inserted over an Assignment, another subject being held as
\* Assignment only.
UpgradedByInsert ==
    /\ inserted.done
    /\ inserted.kind = "Approval"
    /\ inserted.message \in DOMAIN inserted.before
    /\ inserted.before[inserted.message] = "Assignment"
    /\ inserted.novel
    /\ \E s \in DOMAIN ledger : ledger[s] = "Assignment"

(***************************************************************************)
(* C17: at every quiescent point, a subject that a ledger (our knowledge   *)
(* of a block, the sent or the received ledger of a peer for a block) held *)
(* as Approval at an earlier quiescent point is not held as Assignment in  *)
(* that ledger, the block entry and the peer's known_by entry having       *)
(* existed ever since.                                                     *)
(***************************************************************************)
ApprovalNeverRegresses ==
    \A c \in upgraded :
        /\ CellExists(blocks, c)
        /\ c[4] \in DOMAIN LedgerOfCell(blocks, c) => LedgerOfCell(blocks, c)[c[4]] = "Approval"

\* The resend pass emptied a sent ledger that held an Approval.
UpgradedThenCleared ==
    \E c \in upgraded :
        /\ c[1] = "sent"
        /\ c[4] \notin DOMAIN LedgerOfCell(blocks, c)

(***************************************************************************)
(* C18: the loop is biased toward the overseer: when an input of the       *)
(* overseer is ready as the loop selects, the loop handles an input of the *)
(* overseer, and the result of a check is handled only when no input of    *)
(* the overseer is ready.                                                  *)
(***************************************************************************)
OverseerInputFirst ==
    [][overseer_ready => last'.type \notin {"CheckDone", "CheckCanceled"}]_vars

\* A finality signal was ready together with a pending check and was handled.
FinalityWonTheRace ==
    /\ last.type = "BlockFinalized"
    /\ last.raced
    /\ pending_assignment_checks \o pending_vote_checks # <<>>

(***************************************************************************)
(* Circulation of a local assignment.                                      *)
(***************************************************************************)
\* A DistributeAssignment is imported (the block is stored with the
\* candidate, our knowledge lacks the subject), the topology of the block's
\* session is known, and no random routing draw fires in the step.
LocalAssignmentOnGrid ==
    /\ last'.type = "DistributeAssignment"
    /\ last'.subject[1] \in DOMAIN blocks
    /\ HasCandidate(blocks[last'.subject[1]], last'.subject[2])
    /\ last'.subject \notin DOMAIN blocks[last'.subject[1]].knowledge
    /\ get_topology(topologies, blocks[last'.subject[1]].session) # NoTopology
    /\ last'.subject[1] \in DOMAIN blocks'
    /\ StateOfMessage(blocks'[last'.subject[1]], last'.subject[2], last'.subject[3])
          .random_routing.sent = 0

\* The peers to which the messages carry the assignment of the subject.
AssignmentRecipients(msgs, message_subject) ==
    UNION { IF /\ msgs[i].type = "SendValidationMessage"
               /\ msgs[i].kind = "Assignments"
               /\ message_subject \in msgs[i].subjects
            THEN msgs[i].peers ELSE {} : i \in 1..Len(msgs) }

\* The peers of the block to which the grid routes the stored message.
RoutedPeers(bs, tops, message_subject) ==
    { p \in DOMAIN bs[message_subject[1]].known_by :
        route_to_peer(get_topology(tops, bs[message_subject[1]].session),
                      StateOfMessage(bs[message_subject[1]], message_subject[2],
                                     message_subject[3]).required_routing,
                      p) }

(***************************************************************************)
(* C19: when a local assignment is imported for a block whose session      *)
(* topology is known and no random routing draw fires, the Assignments     *)
(* message goes to exactly the peers of the block's known_by to which      *)
(* route_to_peer(required_routing, peer) routes it.                        *)
(***************************************************************************)
LocalAssignmentToRoutedPeers ==
    [][LocalAssignmentOnGrid
       => AssignmentRecipients(outbox', last'.subject)
            = RoutedPeers(blocks', topologies, last'.subject)]_vars

(***************************************************************************)
(* C19, amended: ... it goes to exactly the peers of the block's known_by  *)
(* to which route_to_peer(required_routing, peer) routes it and whose      *)
(* ledgers (sent or received) did not hold the assignment already.         *)
(***************************************************************************)
LocalAssignmentToRoutedUnawarePeers ==
    [][LocalAssignmentOnGrid
       => AssignmentRecipients(outbox', last'.subject)
            = { p \in RoutedPeers(blocks', topologies, last'.subject) :
                  ~LedgerHolds(blocks, p, last'.subject, "Assignment") }]_vars

\* A local assignment was sent to a peer of the block on the grid, and no
\* random draw fired.
LocalAssignmentSentOnGrid ==
    /\ last.type = "DistributeAssignment"
    /\ last.subject[1] \in DOMAIN blocks
    /\ <<last.subject[2], last.subject[3]>> \in MessagesOf(blocks[last.subject[1]])
    /\ get_topology(topologies, blocks[last.subject[1]].session) # NoTopology
    /\ StateOfMessage(blocks[last.subject[1]], last.subject[2], last.subject[3])
          .random_routing.sent = 0
    /\ AssignmentRecipients(outbox, last.subject) # {}
    /\ AssignmentRecipients(outbox, last.subject)
          = RoutedPeers(blocks, topologies, last.subject)

(***************************************************************************)
(* Aggression level 1.                                                     *)
(***************************************************************************)
\* The span of the stored block numbers.
Span(by_number) == Max(DOMAIN by_number) - Min(DOMAIN by_number)

\* A NewBlocks or BlockFinalized after which the span reaches l1_threshold.
AggressionL1Step ==
    /\ last'.type \in {"NewBlocks", "BlockFinalized"}
    /\ DOMAIN blocks_by_number' # {}
    /\ aggression_config.l1_threshold # None
    /\ Span(blocks_by_number') >= aggression_config.l1_threshold

\* The blocks of the lowest stored number.
OldestBlocks(bs, by_number) ==
    { h \in DOMAIN bs : bs[h].number = Min(DOMAIN by_number) }

\* The peers to which the messages carry the approval of the subject.
ApprovalRecipients(msgs, message_subject) ==
    UNION { IF /\ msgs[i].type = "SendValidationMessage"
               /\ msgs[i].kind = "Approvals"
               /\ message_subject \in msgs[i].subjects
            THEN msgs[i].peers ELSE {} : i \in 1..Len(msgs) }

\* After the step the message x of the block h is routed to All, and the
\* step sent it to every peer of the block whose ledgers lacked it.
FloodedInStep(h, x) ==
    /\ x \in MessagesOf(blocks'[h])
    /\ StateOfMessage(blocks'[h], x[1], x[2]).required_routing = "All"
    /\ \A p \in DOMAIN blocks'[h].known_by :
          ~LedgerHolds(blocks, p, MessageSubject(h, x[1], x[2]), "Assignment")
             => /\ p \in AssignmentRecipients(outbox', MessageSubject(h, x[1], x[2]))
                /\ StateOfMessage(blocks'[h], x[1], x[2]).approval_state.tag = "Approved"
                     => p \in ApprovalRecipients(outbox', MessageSubject(h, x[1], x[2]))

(***************************************************************************)
(* C20: when the span of the stored block numbers is >= l1_threshold after *)
(* a NewBlocks or BlockFinalized, every message of the oldest block(s)     *)
(* with local = true and required_routing # All gets required_routing All  *)
(* and is sent in that step to every peer of the block's known_by that     *)
(* does not know it already.                                               *)
(***************************************************************************)
AggressionL1Floods ==
    [][AggressionL1Step
       => \A h \in OldestBlocks(blocks', blocks_by_number') \cap DOMAIN blocks :
             \A x \in MessagesOf(blocks[h]) :
                 (/\ StateOfMessage(blocks[h], x[1], x[2]).local
                  /\ StateOfMessage(blocks[h], x[1], x[2]).required_routing # "All")
                 => FloodedInStep(h, x)]_vars

(***************************************************************************)
(* C20, amended: ... every message of the oldest block(s) with local =     *)
(* true and required_routing neither All nor PendingTopology gets          *)
(* required_routing All and is sent in that step to every peer of the      *)
(* block's known_by that does not know it already.                         *)
(***************************************************************************)
AggressionL1FloodsRouted ==
    [][AggressionL1Step
       => \A h \in OldestBlocks(blocks', blocks_by_number') \cap DOMAIN blocks :
             \A x \in MessagesOf(blocks[h]) :
                 (/\ StateOfMessage(blocks[h], x[1], x[2]).local
                  /\ StateOfMessage(blocks[h], x[1], x[2]).required_routing
                        \notin {"All", "PendingTopology"})
                 => FloodedInStep(h, x)]_vars

\* A finalization left a span at l1_threshold and a local message of the
\* oldest block, now routed to All, went to a peer outside the grid.
AggressionL1Sent ==
    /\ last.type = "BlockFinalized"
    /\ DOMAIN blocks_by_number # {}
    /\ aggression_config.l1_threshold # None
    /\ Span(blocks_by_number) >= aggression_config.l1_threshold
    /\ \E h \in OldestBlocks(blocks, blocks_by_number) :
          \E x \in MessagesOf(blocks[h]) :
              /\ StateOfMessage(blocks[h], x[1], x[2]).local
              /\ StateOfMessage(blocks[h], x[1], x[2]).required_routing = "All"
              /\ \E p \in AssignmentRecipients(outbox, MessageSubject(h, x[1], x[2])) :
                    ~route_to_peer(get_topology(topologies, blocks[h].session),
                                   "GridXY", p)

(***************************************************************************)
(* Aggression level 2.                                                     *)
(***************************************************************************)
\* A NewBlocks or BlockFinalized after which the span reaches l2_threshold.
AggressionL2Step ==
    /\ last'.type \in {"NewBlocks", "BlockFinalized"}
    /\ DOMAIN blocks_by_number' # {}
    /\ aggression_config.l2_threshold # None
    /\ Span(blocks_by_number') >= aggression_config.l2_threshold

AggressionL2WidensWhenRelevant ==
    [][(AggressionL2Step
        /\ is_age_relevant(aggression_config, Span(blocks_by_number')))
       => \A h \in OldestBlocks(blocks', blocks_by_number') \cap DOMAIN blocks :
             \A x \in MessagesOf(blocks[h]) :
                 (/\ ~StateOfMessage(blocks[h], x[1], x[2]).local
                  /\ StateOfMessage(blocks[h], x[1], x[2]).required_routing
                        \notin {"GridXY", "PendingTopology"})
                 => /\ x \in MessagesOf(blocks'[h])
                    /\ StateOfMessage(blocks'[h], x[1], x[2]).required_routing
                          = "GridXY"]_vars

AggressionSparesNewerBlocks ==
    [][last'.type \in {"NewBlocks", "BlockFinalized"}
       => \A h \in (DOMAIN blocks) \cap (DOMAIN blocks') :
             h \notin OldestBlocks(blocks', blocks_by_number')
             => \A x \in MessagesOf(blocks[h]) :
                   /\ x \in MessagesOf(blocks'[h])
                   /\ StateOfMessage(blocks'[h], x[1], x[2]).required_routing
                         = StateOfMessage(blocks[h], x[1], x[2]).required_routing]_vars

\* Aggression widened a message of the oldest block while a newer block
\* holds a message of the same origin that it would have widened as well.
AggressionWidenedOldestOnly ==
    /\ last.type \in {"NewBlocks", "BlockFinalized"}
    /\ DOMAIN blocks_by_number # {}
    /\ is_age_relevant(aggression_config, Span(blocks_by_number))
    /\ \E h1 \in OldestBlocks(blocks, blocks_by_number),
          h2 \in (DOMAIN blocks) \ OldestBlocks(blocks, blocks_by_number) :
          \E x1 \in MessagesOf(blocks[h1]), x2 \in MessagesOf(blocks[h2]) :
              /\ StateOfMessage(blocks[h1], x1[1], x1[2]).local
              /\ StateOfMessage(blocks[h2], x2[1], x2[2]).local
              /\ StateOfMessage(blocks[h1], x1[1], x1[2]).required_routing = "All"
              /\ StateOfMessage(blocks[h2], x2[1], x2[2]).required_routing = "GridXY"

(***************************************************************************)
(* The resend pass.                                                        *)
(***************************************************************************)
\* The age of a block after the step.
AgeAfter(h) == Max(DOMAIN blocks_by_number') - blocks'[h].number

\* After the step, the sent ledger of the peer p of the block h holds only
\* what the step sent to p, and the step sent p every message of h that the
\* grid routes to p and that p did not deliver to us.
ResentInStep(h, p) ==
    /\ \A s \in DOMAIN blocks'[h].known_by[p].sent :
          p \in AssignmentRecipients(outbox', s)
    /\ get_topology(topologies', blocks'[h].session) # NoTopology
       => \A x \in MessagesOf(blocks'[h]) :
             (/\ route_to_peer(get_topology(topologies', blocks'[h].session),
                               StateOfMessage(blocks'[h], x[1], x[2]).required_routing,
                               p)
              /\ MessageSubject(h, x[1], x[2])
                    \notin DOMAIN blocks'[h].known_by[p].received)
             => p \in AssignmentRecipients(outbox', MessageSubject(h, x[1], x[2]))

\* A BlockFinalized step takes nothing out of the sent ledgers of the blocks
\* it keeps.
FinalizedKeepsSentLedgers ==
    last'.type = "BlockFinalized"
    => \A h \in (DOMAIN blocks) \cap (DOMAIN blocks') :
          \A p \in DOMAIN blocks[h].known_by :
              /\ p \in DOMAIN blocks'[h].known_by
              /\ \A s \in DOMAIN blocks[h].known_by[p].sent :
                    /\ s \in DOMAIN blocks'[h].known_by[p].sent
                    /\ blocks[h].known_by[p].sent[s] = "Approval"
                       => blocks'[h].known_by[p].sent[s] = "Approval"

(***************************************************************************)
(* C23: on a NewBlocks, whenever resend_unfinalized_period is set, every   *)
(* block whose age (highest stored number - its number) is a multiple of   *)
(* the period has the sent ledger of every peer of its known_by reset and  *)
(* its messages emitted again to the peers in their required routing; a    *)
(* BlockFinalized never resets a sent ledger.                              *)
(***************************************************************************)
ResendOnEveryMultiple ==
    [][/\ (last'.type = "NewBlocks"
           /\ aggression_config.resend_unfinalized_period # None)
          => \A h \in DOMAIN blocks' :
                AgeAfter(h) % aggression_config.resend_unfinalized_period = 0
                => \A p \in DOMAIN blocks'[h].known_by : ResentInStep(h, p)
       /\ FinalizedKeepsSentLedgers]_vars

(***************************************************************************)
(* C23, amended: on a NewBlocks, whenever resend_unfinalized_period is set *)
(* and the span of the stored numbers passes is_age_relevant, every block  *)
(* whose age is a positive multiple of the period has the sent ledger of   *)
(* every peer of its known_by reset and its messages emitted again to the  *)
(* peers in their required routing that did not deliver them; a            *)
(* BlockFinalized never resets a sent ledger.                              *)
(***************************************************************************)
ResendOnPositiveMultiple ==
    [][/\ (/\ last'.type = "NewBlocks"
           /\ aggression_config.resend_unfinalized_period # None
           /\ DOMAIN blocks_by_number' # {}
           /\ is_age_relevant(aggression_config, Span(blocks_by_number')))
          => \A h \in DOMAIN blocks' :
                (/\ AgeAfter(h) > 0
                 /\ AgeAfter(h) % aggression_config.resend_unfinalized_period = 0)
                => \A p \in DOMAIN blocks'[h].known_by : ResentInStep(h, p)
       /\ FinalizedKeepsSentLedgers]_vars

\* A NewBlocks sent a peer again an assignment of an older block that an
\* earlier step had sent it.
ResentAfterNewBlocks ==
    /\ last.type = "NewBlocks"
    /\ aggression_config.resend_unfinalized_period # None
    /\ \E h \in DOMAIN blocks :
          /\ Max(DOMAIN blocks_by_number) - blocks[h].number > 0
          /\ \E p \in DOMAIN blocks[h].known_by :
                \E s \in DOMAIN blocks[h].known_by[p].sent :
                    /\ <<p, s, "Assignment">> \in transmitted
                    /\ p \in AssignmentRecipients(outbox, s)

KnownByAboveFinalized(bs, views) ==
    \A h \in DOMAIN bs :
        \A p \in (DOMAIN bs[h].known_by) \cap (DOMAIN views) :
            bs[h].number > views[p].finalized_number

DrainEndsEmptyOrChecking ==
    last.type = "CheckDone"
    => \/ Backlog(pending_messages, last.subject) = <<>>
       \/ /\ ~is_queue_idle(Cur, last.subject)
          /\ ChecksOf(AllPendingChecks, last.subject) # <<>>

\* The drain after a result stopped at a message that started a check, with
\* a message of the subject still queued behind it.
DrainStoppedAtCheck ==
    /\ last.type = "CheckDone"
    /\ Backlog(pending_messages, last.subject) # <<>>
    /\ ~is_queue_idle(Cur, last.subject)
    /\ Len(ChecksOf(AllPendingChecks, last.subject)) = 1

(***************************************************************************)
(* Circulation of an approval.                                             *)
(***************************************************************************)
\* The step circulates the approval of its subject: the stored message of
\* the subject goes from Assigned to Approved.
ApprovalCirculated ==
    /\ last'.kind = "Approval"
    /\ last'.type \in {"CheckDone", "DistributeApproval"}
    /\ last'.subject[1] \in (DOMAIN blocks) \cap (DOMAIN blocks')
    /\ <<last'.subject[2], last'.subject[3]>> \in MessagesOf(blocks[last'.subject[1]])
    /\ StateOfMessage(blocks[last'.subject[1]], last'.subject[2], last'.subject[3])
          .approval_state.tag = "Assigned"
    /\ StateOfMessage(blocks'[last'.subject[1]], last'.subject[2], last'.subject[3])
          .approval_state.tag = "Approved"

(***************************************************************************)
(* C26: when the approval of a subject s is circulated, every peer of the  *)
(* block's known_by other than the source whose sent ledger holds the      *)
(* assignment of s and whose ledgers do not hold the approval is sent the  *)
(* approval, whether route_to_peer(required_routing, peer) holds or not.   *)
(***************************************************************************)
ApprovalFollowsSentEdges ==
    [][ApprovalCirculated
       => \A p \in DOMAIN blocks[last'.subject[1]].known_by :
             (/\ p # last'.peer
              /\ Knowledge_contains(blocks[last'.subject[1]].known_by[p].sent,
                                    last'.subject, "Assignment")
              /\ ~LedgerHolds(blocks, p, last'.subject, "Approval"))
             => p \in ApprovalRecipients(outbox', last'.subject)]_vars

\* An approval went to a peer that the grid does not route the message to
\* and that had been sent the assignment.
ApprovalSentOffGrid ==
    /\ last.kind = "Approval"
    /\ last.type \in {"CheckDone", "DistributeApproval"}
    /\ last.subject[1] \in DOMAIN blocks
    /\ <<last.subject[2], last.subject[3]>> \in MessagesOf(blocks[last.subject[1]])
    /\ get_topology(topologies, blocks[last.subject[1]].session) # NoTopology
    /\ \E p \in ApprovalRecipients(outbox, last.subject) :
          /\ <<p, last.subject, "Assignment">> \in transmitted
          /\ ~route_to_peer(get_topology(topologies, blocks[last.subject[1]].session),
                            StateOfMessage(blocks[last.subject[1]], last.subject[2],
                                           last.subject[3]).required_routing,
                            p)

(***************************************************************************)
(* The message state across the import of an approval.                     *)
(***************************************************************************)
\* The step handles an approval of a subject stored in a block that the
\* step keeps: a peer's message, the result of its check, or our own vote.
ApprovalHandled ==
    /\ last'.kind = "Approval"
    /\ last'.type \in {"PeerMessage", "CheckDone", "DistributeApproval"}
    /\ last'.subject[1] \in (DOMAIN blocks) \cap (DOMAIN blocks')
    /\ <<last'.subject[2], last'.subject[3]>> \in MessagesOf(blocks[last'.subject[1]])
    /\ <<last'.subject[2], last'.subject[3]>> \in MessagesOf(blocks'[last'.subject[1]])

\* The step imports an approval: the verifier accepted it or it is our own.
ApprovalImported ==
    /\ ApprovalHandled
    /\ \/ last'.type = "DistributeApproval"
       \/ last'.type = "CheckDone" /\ last'.result = "Accepted"

(***************************************************************************)
(* C27: importing the first approval of a subject whose message state is   *)
(* Assigned makes it Approved, with the same certificate, required_routing,*)
(* local flag and random_routing counter; handling an approval of a        *)
(* subject whose message state is Approved leaves the message state as it  *)
(* was.                                                                    *)
(***************************************************************************)
ApprovalKeepsRoutingState ==
    [][ApprovalHandled
       => LET old == StateOfMessage(blocks[last'.subject[1]], last'.subject[2],
                                    last'.subject[3])
              new == StateOfMessage(blocks'[last'.subject[1]], last'.subject[2],
                                    last'.subject[3])
          IN  /\ (ApprovalImported /\ old.approval_state.tag = "Assigned")
                 => /\ new.approval_state.tag = "Approved"
                    /\ new.approval_state.cert = old.approval_state.cert
                    /\ new.approval_state.signature \in Signatures
                    /\ new.required_routing = old.required_routing
                    /\ new.local = old.local
                    /\ new.random_routing = old.random_routing
              /\ old.approval_state.tag = "Approved" => new = old]_vars

\* An approval was imported for a message that random routing had sent.
ApprovedAfterRandomRouting ==
    /\ last.kind = "Approval"
    /\ last.type \in {"CheckDone", "DistributeApproval"}
    /\ last.subject[1] \in DOMAIN blocks
    /\ <<last.subject[2], last.subject[3]>> \in MessagesOf(blocks[last.subject[1]])
    /\ StateOfMessage(blocks[last.subject[1]], last.subject[2], last.subject[3])
          .approval_state.tag = "Approved"
    /\ StateOfMessage(blocks[last.subject[1]], last.subject[2], last.subject[3])
          .random_routing.sent > 0
    /\ <<last.subject, "Approval">> \notin { <<t[2], t[3]>> : t \in transmitted }
    /\ PeerSends(outbox) # {}

(***************************************************************************)
(* The life of a required_routing.                                         *)
(***************************************************************************)
\* The messages of block h that are stored before and after the step.
KeptMessages(h) == MessagesOf(blocks[h]) \cap MessagesOf(blocks'[h])

\* The step changed the required_routing of the message x of block h.
RoutingChanged(h, x) ==
    StateOfMessage(blocks'[h], x[1], x[2]).required_routing
        # StateOfMessage(blocks[h], x[1], x[2]).required_routing

\* The change of the message x of block h is one of the three transitions.
RoutingTransition(h, x) ==
    LET old == StateOfMessage(blocks[h], x[1], x[2])
        new == StateOfMessage(blocks'[h], x[1], x[2])
        topology == get_topology(topologies', blocks[h].session)
    IN  \/ /\ old.required_routing = "PendingTopology"
           /\ last'.type = "NewGossipTopology"
           /\ get_topology(topologies, blocks[h].session) = NoTopology
           /\ topology # NoTopology
           /\ new.required_routing = required_routing_by_index(topology, x[2], old.local)
        \/ /\ old.required_routing # "PendingTopology"
           /\ old.local
           /\ AggressionL1Step
           /\ new.required_routing = "All"
        \/ /\ old.required_routing # "PendingTopology"
           /\ ~old.local
           /\ AggressionL2Step
           /\ new.required_routing = "GridXY"

(***************************************************************************)
(* C28: the required_routing of a stored message changes only from         *)
(* PendingTopology to required_routing_by_index(validator, local) when the *)
(* topology of the session of its block arrives, from a concrete value to  *)
(* All for a local message under aggression level 1, and from a concrete   *)
(* value to GridXY for a non-local message under aggression level 2; it    *)
(* never becomes PendingTopology again.                                    *)
(***************************************************************************)
RoutingChangesByTransition ==
    [][\A h \in (DOMAIN blocks) \cap (DOMAIN blocks') :
          \A x \in KeptMessages(h) :
             /\ RoutingChanged(h, x) => RoutingTransition(h, x)
             /\ StateOfMessage(blocks'[h], x[1], x[2]).required_routing = "PendingTopology"
                => StateOfMessage(blocks[h], x[1], x[2]).required_routing
                      = "PendingTopology"]_vars

\* The topology of a session arrived and a message stored for a block of the
\* session, routed by it, went to a peer of the grid that lacked it.
RoutedByArrivedTopology ==
    /\ last.type = "NewGossipTopology"
    /\ PeerSends(outbox) # {}
    /\ \E h \in DOMAIN blocks : \E x \in MessagesOf(blocks[h]) :
          /\ get_topology(topologies, blocks[h].session) # NoTopology
          /\ StateOfMessage(blocks[h], x[1], x[2]).required_routing
                = required_routing_by_index(get_topology(topologies, blocks[h].session),
                                            x[2],
                                            StateOfMessage(blocks[h], x[1], x[2]).local)
          /\ ~RequiredRouting_is_empty(StateOfMessage(blocks[h], x[1], x[2]).required_routing)

(***************************************************************************)
(* The verifier rejects a check.                                           *)
(***************************************************************************)
\* The verifier answered a check of a stored block with Bad or TooFarInFuture.
CheckRejected ==
    /\ last'.type = "CheckDone"
    /\ last'.result \in {"Bad", "TooFarInFuture"}
    /\ last'.subject[1] \in DOMAIN blocks

\* The cost of the rejection.
CostOfRejection(result) ==
    IF result = "Bad" THEN COST_INVALID_MESSAGE ELSE COST_ASSIGNMENT_TOO_FAR_IN_THE_FUTURE

\* The reports of the cost `rep` to the peer among the messages.
ReportsOf(msgs, peer_id, rep) ==
    { i \in Reports(msgs) : msgs[i].peer = peer_id /\ msgs[i].rep = rep }

\* The state in which the rejected result leaves the subsystem if all it
\* does is to report the peer: the answered check is gone from its queue.
AfterRejection ==
    [Cur EXCEPT
       !.pending_assignment_checks =
           IF last'.kind = "Assignment" THEN Tail(@) ELSE @,
       !.pending_vote_checks = IF last'.kind = "Approval" THEN Tail(@) ELSE @,
       !.outbox = <<ReportPeer(last'.peer, CostOfRejection(last'.result))>>]

\* The state the step ends in, as a record.
Reached == [Cur EXCEPT !.outbox = outbox]

(***************************************************************************)
(* C29: when the verifier answers the check of a peer's message with Bad   *)
(* (or TooFarInFuture), exactly one ReportPeer(peer, COST_INVALID_MESSAGE) *)
(* (or COST_ASSIGNMENT_TOO_FAR_IN_THE_FUTURE) is sent, first of all; our   *)
(* knowledge and the message states of the block are as before, nothing is *)
(* sent to peers and the loop keeps running; the result changes nothing    *)
(* else: the turn of the loop ends in the state that marking the subject   *)
(* idle and draining its backlog give from the state before with the one   *)
(* report, so that with an empty backlog every ledger of every peer is as  *)
(* before.                                                                 *)
(***************************************************************************)
RejectionReportsAndDrops ==
    [][CheckRejected
       => /\ Cardinality(ReportsOf(outbox', last'.peer, CostOfRejection(last'.result))) = 1
          /\ outbox'[1] = ReportPeer(last'.peer, CostOfRejection(last'.result))
          /\ last'.subject[1] \in DOMAIN blocks'
          /\ blocks'[last'.subject[1]].knowledge = blocks[last'.subject[1]].knowledge
          /\ blocks'[last'.subject[1]].candidates = blocks[last'.subject[1]].candidates
          /\ PeerSends(outbox') = {}
          /\ running'
          /\ \E R \in SUBSET (env.peers \X {last'.subject}) :
                Reached' = drain_queue(set_queue_idle(AfterRejection, last'.subject, FALSE),
                                       last'.subject, R)
          /\ Backlog(pending_messages, last'.subject) = <<>>
             => /\ blocks' = blocks
                /\ Len(outbox') = 1]_vars

\* A peer of the block whose ledgers hold the assignment had its approval
\* judged Bad: the report is all that left and the message is still Assigned.
BadApprovalReported ==
    /\ last.type = "CheckDone"
    /\ last.kind = "Approval"
    /\ last.result = "Bad"
    /\ last.subject[1] \in DOMAIN blocks
    /\ last.peer \in DOMAIN blocks[last.subject[1]].known_by
    /\ LedgerHolds(blocks, last.peer, last.subject, "Assignment")
    /\ <<last.subject[2], last.subject[3]>> \in MessagesOf(blocks[last.subject[1]])
    /\ StateOfMessage(blocks[last.subject[1]], last.subject[2], last.subject[3])
          .approval_state.tag = "Assigned"
    /\ outbox = <<ReportPeer(last.peer, COST_INVALID_MESSAGE)>>
    /\ running

(***************************************************************************)
(* The result of a check whose block is gone.                              *)
(***************************************************************************)
\* The verifier answered a check whose block is not in the store.
ResultForAbsentBlock ==
    /\ last'.type = "CheckDone"
    /\ last'.subject[1] \notin DOMAIN blocks

(***************************************************************************)
(* C30: when the result of a check arrives and the block of the subject is *)
(* not in the store, no ReportPeer and no other message is sent and no     *)
(* block entry (knowledge, ledgers, message states) changes; after the     *)
(* turn of the loop the subject is idle, its backlog is empty and no check *)
(* of it is pending.                                                       *)
(***************************************************************************)
LateResultIsDropped ==
    [][ResultForAbsentBlock
       => /\ outbox' = <<>>
          /\ blocks' = blocks
          /\ is_queue_idle(Cur', last'.subject)
          /\ Backlog(pending_messages', last'.subject) = <<>>
          /\ ChecksOf(AllPendingChecks', last'.subject) = <<>>
          /\ running']_vars

\* An accepted result arrived for a block that had been finalized: nothing
\* was sent and the subject is idle.
AcceptedResultDropped ==
    /\ last.type = "CheckDone"
    /\ last.result = "Accepted"
    /\ last.subject[1] \notin DOMAIN blocks
    /\ is_recent_outdated(recent_outdated_blocks, last.subject[1])
    /\ outbox = <<>>
    /\ is_queue_idle(Cur, last.subject)
    /\ Backlog(pending_messages, last.subject) = <<>>

(***************************************************************************)
(* The query for the signatures of approvals.                              *)
(***************************************************************************)
\* The validators whose message is Approved on a requested candidate that
\* the store holds.
ApprovedOn(bs, indices) ==
    { v \in Validators :
        \E x \in indices :
           /\ x[1] \in DOMAIN bs
           /\ x[2] < Len(bs[x[1]].candidates)
           /\ <<x[2], v>> \in MessagesOf(bs[x[1]])
           /\ StateOfMessage(bs[x[1]], x[2], v).approval_state.tag = "Approved" }

(***************************************************************************)
(* C31: GetApprovalSignatures(indices) replies with one map whose keys are *)
(* exactly the validators whose message state is Approved on some          *)
(* requested (block hash, candidate index) of the store, each with the     *)
(* signature of such a message; Assigned messages, unknown blocks and      *)
(* candidate indices out of range add nothing; no state changes.           *)
(***************************************************************************)
SignaturesOfApprovedOnly ==
    [][last'.type = "GetApprovalSignatures"
       => /\ Len(outbox') = 1
          /\ outbox'[1].type = "ApprovalSignatures"
          /\ DOMAIN outbox'[1].sigs = ApprovedOn(blocks, outbox'[1].indices)
          /\ \A v \in DOMAIN outbox'[1].sigs :
                \E x \in outbox'[1].indices :
                   /\ x[1] \in DOMAIN blocks
                   /\ x[2] < Len(blocks[x[1]].candidates)
                   /\ <<x[2], v>> \in MessagesOf(blocks[x[1]])
                   /\ StateOfMessage(blocks[x[1]], x[2], v).approval_state
                         = Approved(StateOfMessage(blocks[x[1]], x[2], v).approval_state.cert,
                                    outbox'[1].sigs[v])
          /\ UNCHANGED <<blocks, blocks_by_number, pending_known, peer_views, topologies,
                         recent_outdated_blocks, aggression_config,
                         pending_assignment_checks, pending_vote_checks,
                         pending_messages, pending_work, running>>]_vars

\* A query named an Approved message, an Assigned one, a block that is not
\* stored and a candidate out of range, and the reply has the one signature.
SignaturesQueried ==
    /\ last.type = "GetApprovalSignatures"
    /\ Len(outbox) = 1
    /\ outbox[1].type = "ApprovalSignatures"
    /\ DOMAIN outbox[1].sigs # {}
    /\ \E x \in outbox[1].indices : x[1] \notin DOMAIN blocks
    /\ \E x \in outbox[1].indices :
          x[1] \in DOMAIN blocks /\ x[2] >= Len(blocks[x[1]].candidates)

\* A query that named only an Assigned message got an empty map.
AssignedNotReported ==
    /\ last.type = "GetApprovalSignatures"
    /\ Len(outbox) = 1
    /\ outbox[1].sigs = <<>>
    /\ \E x \in outbox[1].indices :
          /\ x[1] \in DOMAIN blocks
          /\ x[2] < Len(blocks[x[1]].candidates)
          /\ \E v \in Validators :
                /\ <<x[2], v>> \in MessagesOf(blocks[x[1]])
                /\ StateOfMessage(blocks[x[1]], x[2], v).approval_state.tag = "Assigned"

(***************************************************************************)
(* The two indices of the stored blocks.                                   *)
(***************************************************************************)
\* The places <<number, position>> at which blocks_by_number lists h.
ListedAt(by_number, h) ==
    { x \in UNION { {n} \X (1..Len(by_number[n])) : n \in DOMAIN by_number } :
        by_number[x[1]][x[2]] = h }

(***************************************************************************)
(* C32: in every reachable state a hash h is listed under the number n in  *)
(* blocks_by_number iff blocks holds h with number n, and no hash is       *)
(* listed twice.                                                           *)
(***************************************************************************)
BlocksIndexedOnce ==
    /\ \A n \in DOMAIN blocks_by_number : \A i \in 1..Len(blocks_by_number[n]) :
          /\ blocks_by_number[n][i] \in DOMAIN blocks
          /\ blocks[blocks_by_number[n][i]].number = n
    /\ \A h \in DOMAIN blocks :
          /\ Cardinality(ListedAt(blocks_by_number, h)) = 1
          /\ \A x \in ListedAt(blocks_by_number, h) : x[1] = blocks[h].number

\* A NewBlocks that names a stored block again, twice, after a finalization.
BlockAnnouncedAgain ==
    /\ last.type = "NewBlocks"
    /\ Len(last.metas) = 2
    /\ last.metas[1] = last.metas[2]
    /\ last.metas[1].hash \in DOMAIN blocks
    /\ blocks[last.metas[1].hash].knowledge # Knowledge_default
    /\ recent_outdated_blocks # <<>>

(***************************************************************************)
(* The recipients of assignments and approvals.                            *)
(***************************************************************************)
\* Before the step the peer had delivered (s, kind) of the triple to us.
ReceivedBefore(t) ==
    /\ t[2][1] \in DOMAIN blocks
    /\ t[1] \in DOMAIN blocks[t[2][1]].known_by
    /\ Knowledge_contains(blocks[t[2][1]].known_by[t[1]].received, t[2], t[3])

\* Before the step the ledgers of the peer for the block held (s, kind).
KnewBefore(t) ==
    \/ ReceivedBefore(t)
    \/ /\ t[2][1] \in DOMAIN blocks
       /\ t[1] \in DOMAIN blocks[t[2][1]].known_by
       /\ Knowledge_contains(blocks[t[2][1]].known_by[t[1]].sent, t[2], t[3])

\* After the step the peer is in known_by of the block of the subject.
RecipientKnown(t) ==
    /\ t[2][1] \in DOMAIN blocks'
    /\ t[1] \in DOMAIN blocks'[t[2][1]].known_by

\* After the step the sent ledger of the peer holds (s, kind).
SentNoted(t) ==
    /\ RecipientKnown(t)
    /\ Knowledge_contains(blocks'[t[2][1]].known_by[t[1]].sent, t[2], t[3])

\* The message went back to the peer whose check the step answered.
SentToSource(t) ==
    /\ last'.type = "CheckDone"
    /\ t[2] = last'.subject
    /\ t[1] = last'.peer

\* The step is a NewBlocks whose resend pass empties the sent ledgers of
\* the block h.
SentLedgersEmptied(h) ==
    /\ last'.type = "NewBlocks"
    /\ aggression_config.resend_unfinalized_period # None
    /\ h \in DOMAIN blocks'
    /\ AgeAfter(h) > 0
    /\ AgeAfter(h) % aggression_config.resend_unfinalized_period = 0

(***************************************************************************)
(* C33 (as the code has it): every assignment or approval of a subject s   *)
(* of a block b that a handler sends goes to a peer that is in b.known_by, *)
(* never to the peer whose check of s the handler answers, and never to a  *)
(* peer that had delivered (s, kind) to us; unless the handler is a        *)
(* NewBlocks whose resend pass empties the sent ledgers of b, the ledgers  *)
(* of the peer did not hold (s, kind) before the handler and its sent      *)
(* ledger holds it afterwards.                                             *)
(***************************************************************************)
SendsFollowLedgers ==
    [][\A t \in SentTriples(outbox') :
          /\ RecipientKnown(t)
          /\ ~SentToSource(t)
          /\ ~ReceivedBefore(t)
          /\ ~SentLedgersEmptied(t[2][1]) => ~KnewBefore(t) /\ SentNoted(t)]_vars

\* C33 as the spec words it, for every handler.
SendsAreNewsAndNoted ==
    [][\A t \in SentTriples(outbox') :
          /\ RecipientKnown(t)
          /\ ~SentToSource(t)
          /\ ~KnewBefore(t)
          /\ SentNoted(t)]_vars

\* The result of a peer's check was circulated: to a peer of the block that
\* is not the source and whose sent ledger now holds the message, while the
\* source is a peer of the block as well.
CirculatedPastSource ==
    /\ last.type = "CheckDone"
    /\ last.subject[1] \in DOMAIN blocks
    /\ last.peer \in DOMAIN blocks[last.subject[1]].known_by
    /\ \E t \in SentTriples(outbox) :
          /\ t[2] = last.subject
          /\ t[1] # last.peer
          /\ t[1] \in DOMAIN blocks[last.subject[1]].known_by
          /\ Knowledge_contains(blocks[last.subject[1]].known_by[t[1]].sent, t[2], t[3])

(***************************************************************************)
(* Our knowledge and the message states.                                   *)
(***************************************************************************)
\* No check is pending at the verifier.
Quiescent == pending_assignment_checks = <<>> /\ pending_vote_checks = <<>>

\* Our knowledge of the block h agrees with the state of the message x.
KnowledgeAgrees(h, x) ==
    LET s == MessageSubject(h, x[1], x[2])
    IN  /\ Knowledge_contains(blocks[h].knowledge, s, "Assignment")
           <=> x \in MessagesOf(blocks[h])
        /\ Knowledge_contains(blocks[h].knowledge, s, "Approval")
           <=> (/\ x \in MessagesOf(blocks[h])
                /\ StateOfMessage(blocks[h], x[1], x[2]).approval_state.tag = "Approved")

(***************************************************************************)
(* C34: at every point at which no check is pending, for every stored      *)
(* block and every subject whose candidate index is within the candidates  *)
(* of the block, our knowledge contains (s, Assignment) iff a MessageState *)
(* exists for s, and contains (s, Approval) iff that state is Approved.    *)
(***************************************************************************)
KnowledgeMatchesMessages ==
    Quiescent
    => \A h \in DOMAIN blocks :
          \A x \in (0..(Len(blocks[h].candidates) - 1)) \X Validators :
             KnowledgeAgrees(h, x)

\* With no check pending, our knowledge holds the approval of a subject
\* that has no MessageState.
KnowledgeWithoutMessage ==
    /\ Quiescent
    /\ \E h \in DOMAIN blocks :
          \E x \in (0..(Len(blocks[h].candidates) - 1)) \X Validators :
             /\ Knowledge_contains(blocks[h].knowledge, MessageSubject(h, x[1], x[2]),
                                   "Approval")
             /\ x \notin MessagesOf(blocks[h])

\* What does hold.  Every MessageState is in our knowledge, with the kind
\* of its state.
KnowledgeCoversMessages ==
    \A h \in DOMAIN blocks : \A x \in MessagesOf(blocks[h]) :
       /\ Knowledge_contains(blocks[h].knowledge, MessageSubject(h, x[1], x[2]), "Assignment")
       /\ Knowledge_contains(blocks[h].knowledge, MessageSubject(h, x[1], x[2]), "Approval")
          <=> StateOfMessage(blocks[h], x[1], x[2]).approval_state.tag = "Approved"

\* The step imports an approval (our own, or the result of a check) of a
\* subject whose assignment our knowledge of the block lacks.
ApprovalImportedUnassigned(h, x) ==
    /\ last'.type \in {"DistributeApproval", "CheckDone"}
    /\ last'.kind = "Approval"
    /\ last'.subject = MessageSubject(h, x[1], x[2])
    /\ ~Knowledge_contains(blocks[h].knowledge, last'.subject, "Assignment")

\* The agreement of KnowledgeAgrees after the step.
KnowledgeAgreesAfter(h, x) ==
    LET s == MessageSubject(h, x[1], x[2])
    IN  /\ Knowledge_contains(blocks'[h].knowledge, s, "Assignment")
           <=> x \in MessagesOf(blocks'[h])
        /\ Knowledge_contains(blocks'[h].knowledge, s, "Approval")
           <=> (/\ x \in MessagesOf(blocks'[h])
                /\ StateOfMessage(blocks'[h], x[1], x[2]).approval_state.tag = "Approved")

\* A new block agrees, and every step other than the import of an approval
\* without its assignment keeps the agreement.
KnowledgeKeepsAgreeing ==
    [][\A h \in DOMAIN blocks' :
          \A x \in (0..(Len(blocks'[h].candidates) - 1)) \X Validators :
             IF h \in DOMAIN blocks
             THEN (KnowledgeAgrees(h, x) /\ ~ApprovalImportedUnassigned(h, x))
                  => KnowledgeAgreesAfter(h, x)
             ELSE KnowledgeAgreesAfter(h, x)]_vars

(***************************************************************************)
(* pending_known: messages of blocks that are heads of our view and not    *)
(* yet in the store.                                                       *)
(***************************************************************************)
\* The messages of the subject that wait in the pipeline, oldest first: the
\* ones at the verifier, then the backlog, each as <<peer, message>>.
WaitingOf(checks, queues, message_subject) ==
    [i \in 1..Len(ChecksOf(checks, message_subject)) |->
        <<ChecksOf(checks, message_subject)[i].peer_id,
          ChecksOf(checks, message_subject)[i].msg>>]
    \o Backlog(queues, message_subject)

\* The buffered messages of the block h that are about the subject.
BufferedOf(h, message_subject) ==
    SelectSeq(pending_known[h], LAMBDA e : SubjectOf(e[2]) = message_subject)

\* A peer message arrives for a block hash that is a key of pending_known:
\* it is appended to the buffer and nothing else happens.
BufferedSilently ==
    (/\ last'.type = "PeerMessage"
     /\ last'.subject[1] \in DOMAIN pending_known)
    => /\ outbox' = <<>>
       /\ pending_known' =
             [pending_known EXCEPT ![last'.subject[1]] =
                 Append(@, <<last'.peer, MessageOf(last'.subject, last'.kind)>>)]
       /\ UNCHANGED <<blocks, pending_assignment_checks, pending_vote_checks,
                      pending_messages, pending_work>>

\* A NewBlocks creates the block h of a key of pending_known: the key goes,
\* and of the buffered messages of each subject, after approvals that find
\* no assignment and are dropped, the rest joins the messages that wait in
\* the pipeline, in the order of arrival.
ImportedInArrivalOrder ==
    \A h \in DOMAIN pending_known :
       (last'.type = "NewBlocks" /\ h \in DOMAIN blocks')
       => /\ h \notin DOMAIN pending_known'
          /\ \A s \in { x \in Subjects : x[1] = h } :
                \E k \in 0..Len(BufferedOf(h, s)) :
                   /\ \A i \in 1..k : BufferedOf(h, s)[i][2].kind = "Approval"
                   /\ WaitingOf(AllPendingChecks', pending_messages', s)
                         = WaitingOf(AllPendingChecks, pending_messages, s)
                           \o SubSeq(BufferedOf(h, s), k + 1, Len(BufferedOf(h, s)))

\* A key leaves pending_known only when NewBlocks creates its block or when
\* an OurViewChange drops it, and then nothing of its buffer is imported; a
\* buffer that stays only grows at its end.
DiscardedUnimported ==
    \A h \in DOMAIN pending_known :
       IF h \in DOMAIN pending_known'
       THEN /\ Len(pending_known'[h]) >= Len(pending_known[h])
            /\ SubSeq(pending_known'[h], 1, Len(pending_known[h])) = pending_known[h]
       ELSE \/ last'.type = "NewBlocks" /\ h \in DOMAIN blocks'
            \/ /\ last'.type = "OurViewChange"
               /\ outbox' = <<>>
               /\ UNCHANGED <<blocks, pending_assignment_checks, pending_vote_checks,
                              pending_messages, pending_work>>

(***************************************************************************)
(* C35: a peer message for a block hash that is a head of our view and has *)
(* no BlockEntry yet (a key of pending_known) is buffered with no          *)
(* ReportPeer and no verifier call; when NewBlocks creates the block the   *)
(* buffered messages are imported in arrival order; when an OurViewChange  *)
(* drops the head they are discarded and never imported.                   *)
(***************************************************************************)
PendingKnownBuffers ==
    [][BufferedSilently /\ ImportedInArrivalOrder /\ DiscardedUnimported]_vars

\* The keys of pending_known are not in the store.
PendingKnownAreUnknown == \A h \in DOMAIN pending_known : h \notin DOMAIN blocks

\* NewBlocks created a block that was never there before and imported two
\* buffered messages of a subject: one is at the verifier, one waits.
BufferImported ==
    /\ last.type = "NewBlocks"
    /\ recent_outdated_blocks = <<>>
    /\ pending_known = EmptyMap
    /\ \E s \in Subjects :
          /\ s[1] \in DOMAIN blocks
          /\ \E i \in 1..Len(last.metas) : last.metas[i].hash = s[1]
          /\ Len(ChecksOf(AllPendingChecks, s)) = 1
          /\ Len(Backlog(pending_messages, s)) = 1


(***************************************************************************)
(* The gate of the aggression pass.                                        *)
(***************************************************************************)
\* After the step the store is not empty and the span of its numbers is not
\* an age that is_age_relevant accepts: below l1_threshold when there is
\* one; when there is none, no positive multiple of
\* resend_unfinalized_period or no period at all.
SpanNotRelevant ==
    /\ DOMAIN blocks_by_number' # {}
    /\ \/ /\ aggression_config.l1_threshold # None
          /\ Span(blocks_by_number') < aggression_config.l1_threshold
       \/ /\ aggression_config.l1_threshold = None
          /\ ~(/\ aggression_config.resend_unfinalized_period # None
               /\ Span(blocks_by_number') > 0
               /\ Span(blocks_by_number') % aggression_config.resend_unfinalized_period = 0)

\* The state that handle_new_blocks hands to enable_aggression.
ImportedBlocks(metas, R) ==
    new_blocks_import(
        new_blocks_unify(insert_metas([st |-> Cur, new_hashes |-> {}], metas), R), R)

\* handle_new_blocks ended as it was before its aggression pass.
NewBlocksWithoutAggression ==
    \E R \in SUBSET ((DOMAIN peer_views) \X StoredSubjects(DOMAIN blocks)) :
        Reached' = ImportedBlocks(last'.metas, R)

\* handle_block_finalized sent nothing and kept the blocks left as they were.
FinalizedWithoutAggression ==
    /\ outbox' = <<>>
    /\ \A h \in DOMAIN blocks' : h \in DOMAIN blocks /\ blocks'[h] = blocks[h]

(***************************************************************************)
(* C36: enable_aggression does nothing (no required_routing changed, no    *)
(* sent ledger reset, no message sent) when l1_threshold is set and the    *)
(* span of the stored numbers is below it, whatever l2_threshold and       *)
(* resend_unfinalized_period are; with no l1_threshold it does nothing     *)
(* unless resend_unfinalized_period is set and the span is a positive      *)
(* multiple of it.                                                         *)
(***************************************************************************)
AggressionGatedByAge ==
    [][SpanNotRelevant
       => /\ last'.type = "NewBlocks" => NewBlocksWithoutAggression
          /\ last'.type = "BlockFinalized" => FinalizedWithoutAggression]_vars

\* A block of an age that the resend period divides, with a peer to which a
\* message of the block was sent.
ResendDue(h) ==
    /\ aggression_config.resend_unfinalized_period # None
    /\ Max(DOMAIN blocks_by_number) - blocks[h].number > 0
    /\ (Max(DOMAIN blocks_by_number) - blocks[h].number)
          % aggression_config.resend_unfinalized_period = 0
    /\ \E p \in DOMAIN blocks[h].known_by : DOMAIN blocks[h].known_by[p].sent # {}

\* NewBlocks ran its aggression pass with an l1_threshold above the span,
\* the span at l2_threshold and a block due for a resend by the period
\* alone, with a message of ours that level 1 would send to all.
AggressionHeldBack ==
    /\ last.type = "NewBlocks"
    /\ DOMAIN blocks_by_number # {}
    /\ aggression_config.l1_threshold # None
    /\ Span(blocks_by_number) < aggression_config.l1_threshold
    /\ aggression_config.l2_threshold # None
    /\ Span(blocks_by_number) >= aggression_config.l2_threshold
    /\ outbox = <<>>
    /\ \E h \in OldestBlocks(blocks, blocks_by_number) :
          /\ ResendDue(h)
          /\ \E x \in MessagesOf(blocks[h]) :
                /\ StateOfMessage(blocks[h], x[1], x[2]).local
                /\ StateOfMessage(blocks[h], x[1], x[2]).required_routing # "All"

\* With no l1_threshold, NewBlocks emptied the sent ledger of a peer of a
\* block whose age the period divides: a message sent to the peer earlier is
\* no longer in the ledger.
AggressionResetByPeriod ==
    /\ last.type = "NewBlocks"
    /\ DOMAIN blocks_by_number # {}
    /\ aggression_config.l1_threshold = None
    /\ aggression_config.resend_unfinalized_period # None
    /\ Span(blocks_by_number) > 0
    /\ Span(blocks_by_number) % aggression_config.resend_unfinalized_period = 0
    /\ \E h \in DOMAIN blocks, t \in transmitted :
          /\ t[2][1] = h
          /\ t[1] \in DOMAIN blocks[h].known_by
          /\ t[2] \notin DOMAIN blocks[h].known_by[t[1]].sent

\* With no l1_threshold and a period that does not divide the span, NewBlocks
\* left a block with a peer to which a message was sent.
AggressionOffPeriod ==
    /\ last.type = "NewBlocks"
    /\ DOMAIN blocks_by_number # {}
    /\ aggression_config.l1_threshold = None
    /\ aggression_config.resend_unfinalized_period # None
    /\ Span(blocks_by_number) > 0
    /\ Span(blocks_by_number) % aggression_config.resend_unfinalized_period # 0
    /\ outbox = <<>>
    /\ \E h \in OldestBlocks(blocks, blocks_by_number) :
          \E p \in DOMAIN blocks[h].known_by : DOMAIN blocks[h].known_by[p].sent # {}

(***************************************************************************)
(* Messages of our own while a check of a peer is pending.                 *)
(***************************************************************************)
\* A DistributeAssignment or DistributeApproval is handled in the step.
LocalMessageHandled == last'.type \in {"DistributeAssignment", "DistributeApproval"}

\* The block of the subject is stored with the candidate of the subject.
SubjectStored(message_subject) ==
    /\ message_subject[1] \in DOMAIN blocks
    /\ HasCandidate(blocks[message_subject[1]], message_subject[2])

\* After the step our knowledge holds the message of the step, and the
\* candidate holds its state: an assignment has one, an approval turned the
\* state of its assignment to Approved.
ImportedNow(message_subject, kind) ==
    /\ message_subject[1] \in DOMAIN blocks'
    /\ message_subject \in DOMAIN blocks'[message_subject[1]].knowledge
    /\ kind = "Approval"
       => blocks'[message_subject[1]].knowledge[message_subject] = "Approval"
    /\ kind = "Assignment"
       => <<message_subject[2], message_subject[3]>>
             \in MessagesOf(blocks'[message_subject[1]])
    /\ (/\ kind = "Approval"
        /\ <<message_subject[2], message_subject[3]>>
              \in MessagesOf(blocks[message_subject[1]]))
       => StateOfMessage(blocks'[message_subject[1]], message_subject[2],
                         message_subject[3]).approval_state.tag = "Approved"

\* The message of ours neither waits nor goes to the verifier, whatever is
\* pending.
LocalMessageNotDeferred ==
    /\ pending_messages' = pending_messages
    /\ pending_work' = pending_work
    /\ pending_assignment_checks' = pending_assignment_checks
    /\ pending_vote_checks' = pending_vote_checks
    /\ VerifierCalls(outbox') = {}

\* ... and is imported in the step.
LocalMessageImportedAtOnce ==
    /\ LocalMessageNotDeferred
    /\ SubjectStored(last'.subject) => ImportedNow(last'.subject, last'.kind)

\* ... and is imported in the step unless our knowledge holds it already.
LocalMessageImportedIfNew ==
    /\ LocalMessageNotDeferred
    /\ (/\ SubjectStored(last'.subject)
        /\ ~Knowledge_contains(blocks[last'.subject[1]].knowledge, last'.subject,
                               last'.kind))
       => ImportedNow(last'.subject, last'.kind)

\* The verifier accepts the message of a peer that our knowledge holds
\* already.
AcceptedAfterLocalImport ==
    /\ last'.type = "CheckDone"
    /\ last'.result = "Accepted"
    /\ last'.peer # Null
    /\ last'.subject[1] \in DOMAIN blocks
    /\ last'.subject \in DOMAIN blocks[last'.subject[1]].knowledge
    /\ last'.kind = "Approval"
       => blocks[last'.subject[1]].knowledge[last'.subject] = "Approval"

\* The peer is rewarded as the first source, and nothing is sent to a peer.
RewardedNotCirculated ==
    /\ outbox' # <<>>
    /\ outbox'[1] = ReportPeer(last'.peer, BENEFIT_VALID_MESSAGE_FIRST)
    /\ PeerSends(outbox') = {}
    /\ last'.subject[1] \in DOMAIN blocks'
    /\ blocks'[last'.subject[1]].knowledge = blocks[last'.subject[1]].knowledge
    /\ blocks'[last'.subject[1]].candidates = blocks[last'.subject[1]].candidates

(***************************************************************************)
(* C37: a DistributeAssignment or DistributeApproval for a subject is      *)
(* never queued and never sent to the verifier: it is imported in its own  *)
(* step even while the check of a peer for the subject is pending; when    *)
(* that check later returns Accepted, the peer gets                        *)
(* BENEFIT_VALID_MESSAGE_FIRST and the message is not circulated again.    *)
(***************************************************************************)
LocalMessageBypassesPipeline ==
    [][/\ LocalMessageHandled => LocalMessageImportedAtOnce
       /\ AcceptedAfterLocalImport => RewardedNotCirculated]_vars

\* C37 for the messages that our knowledge does not hold when they arrive.
NewLocalMessageBypassesPipeline ==
    [][/\ LocalMessageHandled => LocalMessageImportedIfNew
       /\ AcceptedAfterLocalImport => RewardedNotCirculated]_vars

\* A DistributeAssignment found our knowledge holding an Approval of its
\* subject and no message state, and left the candidate without one.
LocalAssignmentNotImported ==
    /\ last.type = "DistributeAssignment"
    /\ last.subject[1] \in DOMAIN blocks
    /\ HasCandidate(blocks[last.subject[1]], last.subject[2])
    /\ <<last.subject[2], last.subject[3]>> \notin MessagesOf(blocks[last.subject[1]])

\* A message of ours was imported while the check of a peer for its subject
\* was pending, and the check is pending still.
LocalImportedDuringCheck ==
    /\ last.type \in {"DistributeAssignment", "DistributeApproval"}
    /\ ChecksOf(IF last.kind = "Assignment" THEN pending_assignment_checks
                ELSE pending_vote_checks, last.subject) # <<>>
    /\ last.subject[1] \in DOMAIN blocks
    /\ Knowledge_contains(blocks[last.subject[1]].knowledge, last.subject, last.kind)
    /\ PeerSends(outbox) # {}

\* The check of a peer returned Accepted for an assignment that we had
\* imported as our own meanwhile and sent to another peer: the peer was
\* rewarded and nothing was sent.
AcceptedAfterOurOwn ==
    /\ last.type = "CheckDone"
    /\ last.result = "Accepted"
    /\ last.kind = "Assignment"
    /\ last.subject[1] \in DOMAIN blocks
    /\ <<last.subject[2], last.subject[3]>> \in MessagesOf(blocks[last.subject[1]])
    /\ StateOfMessage(blocks[last.subject[1]], last.subject[2], last.subject[3]).local
    /\ outbox = <<ReportPeer(last.peer, BENEFIT_VALID_MESSAGE_FIRST)>>
    /\ \E t \in transmitted : t[2] = last.subject /\ t[1] # last.peer

\* The same for an approval: the vote of ours was imported while the check
\* of the peer's was pending.
AcceptedApprovalAfterOurOwn ==
    /\ last.type = "CheckDone"
    /\ last.result = "Accepted"
    /\ last.kind = "Approval"
    /\ last.subject[1] \in DOMAIN blocks
    /\ outbox = <<ReportPeer(last.peer, BENEFIT_VALID_MESSAGE_FIRST)>>
    /\ \E t \in transmitted : t[2] = last.subject /\ t[3] = "Approval"

(***************************************************************************)
(* AcceptedDuplicate.                                                      *)
(***************************************************************************)
\* The verifier answers the check of a peer's assignment for a stored block
\* with AcceptedDuplicate.
DuplicateAccepted ==
    /\ last'.type = "CheckDone"
    /\ last'.kind = "Assignment"
    /\ last'.result = "AcceptedDuplicate"
    /\ last'.peer # Null
    /\ last'.subject[1] \in DOMAIN blocks

\* The state after the arm of AcceptedDuplicate: the check is taken off, the
\* subject is in the received ledger that the block keeps of the peer, if it
\* keeps one, and nothing is sent.
AfterDuplicate ==
    [Cur EXCEPT
       !.pending_assignment_checks = Tail(@),
       !.blocks =
           IF last'.peer \in DOMAIN @[last'.subject[1]].known_by
           THEN [@ EXCEPT ![last'.subject[1]].known_by[last'.peer].received =
                             Knowledge_insert(@, last'.subject, "Assignment")]
           ELSE @]

(***************************************************************************)
(* C38: when the verifier answers the check of a peer's assignment with    *)
(* AcceptedDuplicate, no ReportPeer is sent for it, the subject is noted   *)
(* in the received ledger of the peer if the peer is in the known_by of    *)
(* the block, our knowledge and the message states stay as they were and   *)
(* nothing is sent to any peer; what else the step does is the handling of *)
(* the next message that waited for the subject.                           *)
(***************************************************************************)
DuplicateIsOnlyNoted ==
    [][DuplicateAccepted
       => /\ \E R \in SUBSET (env.peers \X {last'.subject}) :
                Reached' = drain_queue(set_queue_idle(AfterDuplicate, last'.subject, FALSE),
                                       last'.subject, R)
          /\ last'.subject[1] \in DOMAIN blocks'
          /\ blocks'[last'.subject[1]].knowledge = blocks[last'.subject[1]].knowledge
          /\ blocks'[last'.subject[1]].candidates = blocks[last'.subject[1]].candidates
          /\ PeerSends(outbox') = {}
          /\ \A i \in Reports(outbox') : outbox'[i].rep = BENEFIT_VALID_MESSAGE
          /\ DOMAIN blocks'[last'.subject[1]].known_by
                = DOMAIN blocks[last'.subject[1]].known_by
          /\ last'.peer \in DOMAIN blocks[last'.subject[1]].known_by
             => last'.subject
                   \in DOMAIN blocks'[last'.subject[1]].known_by[last'.peer].received
          /\ Backlog(pending_messages, last'.subject) = <<>>
             => /\ outbox' = <<>>
                /\ blocks' = AfterDuplicate.blocks]_vars

\* AcceptedDuplicate came for the assignment of a peer that the block knows:
\* the peer's received ledger holds the subject, our knowledge does not,
\* and nothing was sent.
DuplicateNoted ==
    /\ last.type = "CheckDone"
    /\ last.kind = "Assignment"
    /\ last.result = "AcceptedDuplicate"
    /\ last.subject[1] \in DOMAIN blocks
    /\ last.peer \in DOMAIN blocks[last.subject[1]].known_by
    /\ last.subject \in DOMAIN blocks[last.subject[1]].known_by[last.peer].received
    /\ last.subject \notin DOMAIN blocks[last.subject[1]].knowledge
    /\ MessagesOf(blocks[last.subject[1]]) = {}
    /\ outbox = <<>>

\* AcceptedDuplicate came for the assignment of a peer that the block does
\* not know: nothing is noted and nothing is sent.
DuplicateOfStranger ==
    /\ last.type = "CheckDone"
    /\ last.kind = "Assignment"
    /\ last.result = "AcceptedDuplicate"
    /\ last.subject[1] \in DOMAIN blocks
    /\ last.peer \notin DOMAIN blocks[last.subject[1]].known_by
    /\ outbox = <<>>

\* In the step of an AcceptedDuplicate a message that waited for the subject
\* was handled and its sender rewarded.
DuplicateThenDrained ==
    /\ last.type = "CheckDone"
    /\ last.kind = "Assignment"
    /\ last.result = "AcceptedDuplicate"
    /\ Reports(outbox) # {}

(***************************************************************************)
(* Messages of a peer that the block does not know.                        *)
(***************************************************************************)
\* A message of a peer arrives for a stored block whose known_by lacks the
\* peer, the subject not being busy.
ArrivesFromStranger ==
    /\ ArrivesAtStoredBlock
    /\ last'.peer \notin DOMAIN blocks[last'.subject[1]].known_by

\* The approval of a subject whose assignment we do not hold is dropped
\* whoever sends it.
StrangerDropped ==
    /\ last'.kind = "Approval"
    /\ ~Knowledge_contains(blocks[last'.subject[1]].knowledge, last'.subject, "Assignment")

\* The two queues of checks after the message went to the verifier.
ChecksAfterSubmission ==
    IF last'.kind = "Assignment"
    THEN <<Append(pending_assignment_checks,
                  PendingCheck(last'.subject, last'.peer,
                               MessageOf(last'.subject, "Assignment"))),
           pending_vote_checks>>
    ELSE <<pending_assignment_checks,
           Append(pending_vote_checks,
                  PendingCheck(last'.subject, last'.peer,
                               MessageOf(last'.subject, "Approval")))>>

StrangerHandled ==
    IF StrangerDropped
    THEN /\ outbox' = <<>>
         /\ pending_assignment_checks' = pending_assignment_checks
         /\ pending_vote_checks' = pending_vote_checks
    ELSE IF Knowledge_contains(blocks[last'.subject[1]].knowledge,
                               last'.subject, last'.kind)
    THEN /\ outbox' = <<ReportPeer(last'.peer, BENEFIT_VALID_MESSAGE)>>
         /\ pending_assignment_checks' = pending_assignment_checks
         /\ pending_vote_checks' = pending_vote_checks
    ELSE /\ outbox' = << IF last'.kind = "Assignment"
                         THEN CheckAndImportAssignment(last'.subject, last'.peer)
                         ELSE CheckAndImportApproval(last'.subject, last'.peer) >>
         /\ <<pending_assignment_checks', pending_vote_checks'>> = ChecksAfterSubmission

\* The verifier accepts the message of a peer that the stored block does not
\* know, and the message is new to us.
AcceptedFromStranger ==
    /\ last'.type = "CheckDone"
    /\ last'.result = "Accepted"
    /\ last'.peer # Null
    /\ last'.subject[1] \in DOMAIN blocks
    /\ last'.peer \notin DOMAIN blocks[last'.subject[1]].known_by
    /\ ~Knowledge_contains(blocks[last'.subject[1]].knowledge, last'.subject, last'.kind)

\* The state when the circulation of the accepted message starts: the check
\* is taken off, the peer is rewarded and the message is in our knowledge.
AfterAcceptance ==
    [modify_reputation(Cur, last'.peer, BENEFIT_VALID_MESSAGE_FIRST) EXCEPT
       !.pending_assignment_checks = IF last'.kind = "Assignment" THEN Tail(@) ELSE @,
       !.pending_vote_checks = IF last'.kind = "Approval" THEN Tail(@) ELSE @,
       !.blocks[last'.subject[1]].knowledge =
           Knowledge_insert(@, last'.subject, last'.kind)]

AcceptedResult ==
    CheckResult(last'.subject, last'.peer, MessageOf(last'.subject, last'.kind), "Accepted")

\* The peers to which the messages send the subject, whatever the kind.
RecipientsOf(msgs, message_subject) ==
    AssignmentRecipients(msgs, message_subject) \cup ApprovalRecipients(msgs, message_subject)

StrangerCirculated ==
    /\ \E R \in SUBSET (env.peers \X {last'.subject}) :
          Reached' =
             drain_queue(
                 set_queue_idle(
                     IF last'.kind = "Assignment"
                     THEN circulate_assignment(AfterAcceptance, AcceptedResult, R)
                     ELSE circulate_approval(AfterAcceptance, AcceptedResult),
                     last'.subject, FALSE),
                 last'.subject, R)
    /\ outbox'[1] = ReportPeer(last'.peer, BENEFIT_VALID_MESSAGE_FIRST)
    /\ Knowledge_contains(blocks'[last'.subject[1]].knowledge, last'.subject, last'.kind)
    /\ last'.peer \notin RecipientsOf(outbox', last'.subject)
    /\ RecipientsOf(outbox', last'.subject) \subseteq DOMAIN blocks[last'.subject[1]].known_by

\* Neither the delivery of a message nor the answer to a check changes who
\* is in the known_by of a block.
KnownByKept ==
    last'.type \in {"PeerMessage", "CheckDone"}
    => \A h \in DOMAIN blocks :
          /\ h \in DOMAIN blocks'
          /\ DOMAIN blocks'[h].known_by = DOMAIN blocks[h].known_by

(***************************************************************************)
(* C39 (as the code has it): an assignment or approval of a peer for a     *)
(* stored block whose known_by lacks the peer goes to the verifier as one  *)
(* of any other peer would, or is rewarded with BENEFIT_VALID_MESSAGE if   *)
(* we hold it already; but the approval of a subject whose assignment we   *)
(* do not hold is dropped.  If the verifier accepts the message, the peer  *)
(* is rewarded and the message is circulated to the peers of the block     *)
(* that the routing takes, never to the sender.  Neither step adds the     *)
(* sender to known_by.                                                     *)
(***************************************************************************)
StrangerIsHeard ==
    [][/\ ArrivesFromStranger => StrangerHandled
       /\ AcceptedFromStranger => StrangerCirculated
       /\ KnownByKept]_vars

\* C39 as the spec words it: every such message goes to the verifier or is
\* rewarded.
StrangerAlwaysChecked ==
    [][ArrivesFromStranger
       => \/ VerifierCalls(outbox') # {}
          \/ ReportsOf(outbox', last'.peer, BENEFIT_VALID_MESSAGE) # {}]_vars

\* The accepted assignment of a peer that the block does not know was sent
\* to another peer, and the sender is still not in known_by.
StrangerAssignmentCirculated ==
    /\ last.type = "CheckDone"
    /\ last.kind = "Assignment"
    /\ last.result = "Accepted"
    /\ last.subject[1] \in DOMAIN blocks
    /\ last.peer # Null
    /\ last.peer \notin DOMAIN blocks[last.subject[1]].known_by
    /\ AssignmentRecipients(outbox, last.subject) \ {last.peer} # {}

\* The same for an approval.
StrangerApprovalCirculated ==
    /\ last.type = "CheckDone"
    /\ last.kind = "Approval"
    /\ last.result = "Accepted"
    /\ last.subject[1] \in DOMAIN blocks
    /\ last.peer # Null
    /\ last.peer \notin DOMAIN blocks[last.subject[1]].known_by
    /\ ApprovalRecipients(outbox, last.subject) \ {last.peer} # {}

\* The approval of a peer that the block does not know went to the verifier.
StrangerApprovalSubmitted ==
    /\ last.type = "PeerMessage"
    /\ last.kind = "Approval"
    /\ last.subject[1] \in DOMAIN blocks
    /\ last.peer \notin DOMAIN blocks[last.subject[1]].known_by
    /\ VerifierCalls(outbox) # {}

\* A peer that the block does not know sent what we hold and was rewarded.
StrangerRewarded ==
    /\ last.type = "PeerMessage"
    /\ last.subject[1] \in DOMAIN blocks
    /\ last.peer \notin DOMAIN blocks[last.subject[1]].known_by
    /\ outbox = <<ReportPeer(last.peer, BENEFIT_VALID_MESSAGE)>>
=============================================================================
